---- MODULE Spec2Model ----
(***************************************************************************)
(* Model of the iocost-benchmarks CI tools:                                *)
(*   - import-results (src/src/import-results.rs): ingestion of result     *)
(*     files named in a Github issue event, run_as_gh_workflow; main with  *)
(*     its --result mode and the exit status of the process;               *)
(*   - the older CI event handler (src/src/benchmark.rs),                  *)
(*     process_submission;                                                 *)
(*   - BenchMerge::merge / try_fwmerge (src/src/common.rs);                *)
(*   - run_resctl (src/src/common.rs);                                     *)
(*   - merge-results (src/src/merge-results.rs): the parallel per-bucket   *)
(*     merges and the selection pass that writes the hwdb file.            *)
(* Strings are sequences of tokens (a token is a TLA+ string standing for  *)
(* one character or one indivisible chunk of characters).                  *)
(***************************************************************************)
EXTENDS Integers, Sequences, FiniteSets, TLC

\* ------------------------------------------------------------------------
\* Bounds of the model
\* ------------------------------------------------------------------------
\* longest event body, in links
MaxUrls == 2
\* downloadable byte strings are numbered 0..MaxBytes
MaxBytes == 5
\* number of distinct digests the model's md5 can produce
Md5Range == 4
\* largest data-point count a merged file can report
MaxDP == 6

\* ------------------------------------------------------------------------
\* String helpers (std::str)
\* ------------------------------------------------------------------------
StartsWith(s, p) == Len(p) <= Len(s) /\ SubSeq(s, 1, Len(p)) = p

EndsWith(s, x) == Len(x) <= Len(s) /\ SubSeq(s, Len(s) - Len(x) + 1, Len(s)) = x

\* str::contains
Contains(s, sub) == \E i \in 1..(Len(s) - Len(sub) + 1) : SubSeq(s, i, i + Len(sub) - 1) = sub

\* char::is_whitespace on the tokens used here
IsWhitespace(c) == c \in {" ", "\t"}

\* str::replace(" ", "_")
ReplaceSpace(s) == [i \in 1..Len(s) |-> IF s[i] = " " THEN "_" ELSE s[i]]

RECURSIVE SplitWhitespace(_)
\* str::split_whitespace().collect::<Vec<_>>() : the maximal runs of
\* non-whitespace tokens, in order
SplitWhitespace(s) ==
    IF s = <<>> THEN <<>>
    ELSE IF IsWhitespace(Head(s)) THEN SplitWhitespace(Tail(s))
    ELSE LET n == CHOOSE k \in 1..Len(s) :
                      /\ \A i \in 1..k : ~IsWhitespace(s[i])
                      /\ (k = Len(s) \/ IsWhitespace(s[k + 1]))
         IN <<SubSeq(s, 1, n)>> \o SplitWhitespace(SubSeq(s, n + 1, Len(s)))

\* ------------------------------------------------------------------------
\* semver::Version::parse on token strings "M.m.p" and "M.m.p-pre"
\* ------------------------------------------------------------------------
Digit == [t \in {"0", "1", "2", "3", "4"} |->
            CASE t = "0" -> 0 [] t = "1" -> 1 [] t = "2" -> 2
              [] t = "3" -> 3 [] t = "4" -> 4]

NoVersion == [ok |-> FALSE, major |-> 0, minor |-> 0, patch |-> 0, pre |-> <<>>]

SemverParse(s) ==
    IF /\ Len(s) >= 5
       /\ s[1] \in DOMAIN Digit /\ s[2] = "." /\ s[3] \in DOMAIN Digit
       /\ s[4] = "." /\ s[5] \in DOMAIN Digit
       /\ (Len(s) = 5 \/ (Len(s) >= 7 /\ s[6] = "-"))
    THEN [ok |-> TRUE, major |-> Digit[s[1]], minor |-> Digit[s[3]],
          patch |-> Digit[s[5]], pre |-> SubSeq(s, 7, Len(s))]
    ELSE NoVersion

\* format!("{}.{}", v.major, v.minor)
DigitStr(n) == CHOOSE t \in DOMAIN Digit : Digit[t] = n

MajorMinorStr(v) == <<DigitStr(v.major), ".", DigitStr(v.minor)>>

\* ------------------------------------------------------------------------
\* JSON values (json::JsonValue): tagged so that indexing can test the kind
\* ------------------------------------------------------------------------
JNull == [t |-> "null", v |-> <<>>]

JStr(s) == [t |-> "str", v |-> s]

JArr(a) == [t |-> "arr", v |-> a]

JObj(o) == [t |-> "obj", v |-> o]

\* JsonValue: Index<usize> gives Null for a non-array or a missing element
JIdx(j, i) == IF j.t = "arr" /\ i + 1 <= Len(j.v) THEN j.v[i + 1] ELSE JNull

\* JsonValue: Index<&str> gives Null for a non-object or a missing key
JKey(j, k) == IF j.t = "obj" /\ k \in DOMAIN j.v THEN j.v[k] ELSE JNull

\* JsonValue Display: a string prints raw, Null prints "null"
JToString(j) == IF j.t = "str" THEN j.v ELSE <<"n", "u", "l", "l">>

\* ------------------------------------------------------------------------
\* Result files: byte strings and what they decode to
\* ------------------------------------------------------------------------
\* the system report of one benchmark run
SysInfo(ver, model) ==
    JObj([bench_version |-> JStr(ver),
          sysreqs_report |-> JObj([scr_dev_model |-> JStr(model)])])

\* the document resctl-bench writes: an array of runs
RunsDoc(ver, model) == JArr(<<JObj([sysinfo |-> SysInfo(ver, model)])>>)

\* the same document wrapped in one more array
WrappedDoc(ver, model) == JArr(<<RunsDoc(ver, model)>>)

FileBytes == 0..MaxBytes

\* load_json: gunzip and parse; err for bytes that are not gzip'ed JSON
load_json(b) ==
    CASE b = 0 -> [err |-> FALSE,
                   json |-> WrappedDoc(<<"2", ".", "2", ".", "4", " ", "x">>, <<"A", " ", "B">>)]
      [] b = 1 -> [err |-> FALSE,
                   json |-> WrappedDoc(<<"2", ".", "2", ".", "3">>, <<"A", "_", "B">>)]
      [] b = 2 -> [err |-> FALSE,
                   json |-> WrappedDoc(<<"2", ".", "1", ".", "0">>, <<"C">>)]
      [] b = 3 -> [err |-> FALSE,
                   json |-> RunsDoc(<<"2", ".", "2", ".", "4">>, <<"A", " ", "B">>)]
      [] b = 4 -> [err |-> FALSE,
                   json |-> WrappedDoc(<<"2", ".", "2", ".", "4", " ", "x">>, <<"A", "_", "B">>)]
      [] b = 5 -> [err |-> FALSE,
                   json |-> WrappedDoc(<<" ">>, <<"C">>)]
      [] OTHER -> [err |-> TRUE, json |-> JNull]

\* md5::compute: a digest of bounded width, so not injective
Md5(b) == b % Md5Range

\* mutant: one name for every download
ResultName_Fixed(b) == <<"result-", 0, ".json.gz">>

\* format!("result-{:x}.json.gz", md5::compute(&contents))
ResultName(b) == <<"result-", Md5(b), ".json.gz">>

\* ------------------------------------------------------------------------
\* Links and the event context
\* ------------------------------------------------------------------------
ALLOWED_PREFIXES ==
    { <<"https://github.com/">>,
      <<"https://iocost-submit-us-east-1.s3.us-east-1.amazonaws.com/">> }

UrlGithub == <<"https://github.com/", "iocost-benchmark/benchmarks/files/", "f1", ".json.gz">>

UrlS3 == <<"https://iocost-submit-us-east-1.s3.us-east-1.amazonaws.com/", "f2", ".json.gz">>

\* a foreign host with an allow-listed prefix further inside
UrlForeign == <<"https://evil.example/", "https://github.com/", ".json.gz">>

\* an allow-listed host, with the extension not at the end
UrlNotGz == <<"https://github.com/", "f3", ".json.gz", "?raw">>

Urls == {UrlGithub, UrlS3, UrlForeign, UrlNotGz}

\* the links linkify finds in a body, in order
Bodies == UNION { [1..n -> Urls] : n \in 0..MaxUrls }

\* a body of the event: absent (None) or the links found in its text
Body(links) == [present |-> TRUE, links |-> links]

NoBody == [present |-> FALSE, links |-> <<>>]

\* the issue body of a comment event
OtherBody == Body(<<UrlS3>>)

Actions == {"created", "opened", "edited", "closed"}

EventNames == {"issues", "issue_comment"}

IssueStates == {"open", "closed"}

\* mutant: the prefix is looked for anywhere in the link
is_url_allowlisted_Anywhere(link) == \E prefix \in ALLOWED_PREFIXES : Contains(link, prefix)

is_url_allowlisted(link) == \E prefix \in ALLOWED_PREFIXES : StartsWith(link, prefix)

\* mutant: only the extension is tested
UrlAccepted_ExtensionOnly(link) == EndsWith(link, <<".json.gz">>)

\* the filter of get_urls
UrlAccepted(link) == is_url_allowlisted(link) /\ EndsWith(link, <<".json.gz">>)

RECURSIVE FilterUrls(_)
FilterUrls(links) ==
    IF links = <<>> THEN <<>>
    ELSE IF UrlAccepted(Head(links))
         THEN <<Head(links)>> \o FilterUrls(Tail(links))
         ELSE FilterUrls(Tail(links))

\* the body get_urls reads, for the event kinds it handles
EventBody(c) ==
    CASE c.action = "created" -> c.comment_body
      [] c.action = "opened" -> c.issue_body
      [] c.action = "edited" ->
            IF c.event_name = "issue_comment" THEN c.comment_body ELSE c.issue_body
      [] OTHER -> NoBody

HandledAction(c) == c.action \in {"created", "opened", "edited"}

\* mutant: the state of the issue is not looked at
IssueRejected_LockedOnly(c) == c.locked

IssueRejected(c) == c.locked \/ c.state # "open"

\* ------------------------------------------------------------------------
\* Metadata extraction (BenchResult::new_from_issue / new_from_file)
\* ------------------------------------------------------------------------
\* the version and model fields read under `run`, the value that is indexed
\* with ["sysinfo"]
ExtractMeta(run) ==
    LET words == SplitWhitespace(JToString(JKey(JKey(run, "sysinfo"), "bench_version")))
        v == IF words = <<>> THEN NoVersion ELSE SemverParse(words[1])
        model == ReplaceSpace(JToString(
                    JKey(JKey(JKey(run, "sysinfo"), "sysreqs_report"), "scr_dev_model")))
    IN IF words = <<>> THEN [status |-> "panic", version |-> <<>>, model_name |-> <<>>]
       ELSE IF ~v.ok THEN [status |-> "err", version |-> <<>>, model_name |-> <<>>]
       ELSE [status |-> "ok", version |-> MajorMinorStr(v), model_name |-> model]

\* new_from_issue, after the download: json = load_json(path)?[0], then
\* json[0]["sysinfo"]...
MetaFromIssue(b) ==
    IF load_json(b).err THEN [status |-> "err", version |-> <<>>, model_name |-> <<>>]
    ELSE ExtractMeta(JIdx(JIdx(load_json(b).json, 0), 0))

database_path == "database"

\* PathBuf::from(database_path).join(&version).join(&model_name)
BucketDir(version, model_name) == <<database_path, version, model_name>>

\* format!("{}-{}", version, model_name): the key of the `merged` map
MergedKey(version, model_name) == version \o <<"-">> \o model_name

\* HighLevel::new followed by increment, or increment of the existing entry
MergedIncrement(m, version, model_name) ==
    LET k == MergedKey(version, model_name)
    IN IF k \in DOMAIN m
       THEN [m EXCEPT ![k].new_files = @ + 1]
       ELSE [x \in DOMAIN m \cup {k} |->
                IF x = k THEN [version |-> version, model_name |-> model_name, new_files |-> 1]
                ELSE m[x]]

\* what the engine may write to its standard error
EngineErrors == {<<"stderr: bad result">>}

\* a file system directory: path -> contents; writing replaces
WriteFile(fs, path, b) == [x \in DOMAIN fs \cup {path} |-> IF x = path THEN b ELSE fs[x]]

RemoveFile(fs, path) == [x \in DOMAIN fs \ {path} |-> fs[x]]

\* the sidecar path: <dir>/<basename>.json.metadata
MetadataPath(dir, name) == <<dir, <<name[1], name[2], ".json.metadata">>>>

\* ------------------------------------------------------------------------
\* State
\* ------------------------------------------------------------------------
VARIABLES
    prog,       \* which program runs: "import" and "file" (import-results), "ci" (benchmark.rs), ...
    ctx,        \* the event context (GITHUB_CONTEXT)
    pc,         \* position in the program
    outcome,    \* "running", then "ok" | "err" | "panic"
    todo,       \* links still to process; with --result, the file named
    errors,     \* the `errors` vector of messages
    merged,     \* the `merged` map: key -> HighLevel
    cwd,        \* files in the working directory: name -> bytes
    db,         \* files under the database directory: <<dir, name>> -> bytes
    sidecars,   \* metadata files written
    index,      \* paths added to the git index
    requests,   \* network requests issued, in order
    validated,  \* single-file engine runs: <<url, accepted>>
    accepted,   \* history: <<dir, bytes>> of every file stored
    comments,   \* comments posted to the issue
    described,  \* key -> [engine, summary, failed] for the groups format_high_level ran for
    merges,     \* bucket merges run by format_high_level, in order
    commits     \* commits created

ingestVars == <<ctx, pc, outcome, todo, errors, merged, cwd, db, sidecars, index,
                requests, validated, accepted, comments, described, merges, commits>>


VARIABLES
    mpc,        \* position in BenchMerge::merge
    mbucket,    \* the (version, model_name) merge is called for
    mresults,   \* result files of the bucket directory: path -> firmware revision
    mfs,        \* files under merged-results/: path -> data points of the content
    common_dp,  \* data points of the bucket-wide merge
    fw,         \* the firmware-specific candidate of try_fwmerge
    mret        \* what merge returns

mergeVars == <<mpc, mbucket, mresults, mfs, common_dp, fw, mret>>

VARIABLES
    rpc,        \* position in run_resctl
    rproc,      \* what Command::output gives: the finished subprocess, or no process
    rret        \* what run_resctl returns

resctlVars == <<rpc, rproc, rret>>

VARIABLES
    apc,        \* position in main of merge-results: "scan", "workers", "context", "select", "exit"
    aresult,    \* how main ended: [status, cause]
    adb,        \* the database: (version, model directory) -> latest firmware revision of its results
    aengine,    \* what the engine of a version prints for --version
    ascan,      \* version directories still to go through, in glob order
    aversion,   \* the version directory whose model directories are being processed
    workers,    \* model directory -> state of the closure run for it by par_iter
    amfs,       \* files under merged-results/: path -> what was merged into it
    afiles,     \* other files, by path from the working directory: path -> contents
    apdfs,      \* PDFs the engine was asked to render
    amerges,    \* the `merges` map: model name -> Vec<BenchMerge>
    aenv,       \* environment variables: name -> value
    clock,      \* what Utc::now() reads
    aselected,  \* what the selection pass chose, model by model, in order
    aemitted    \* snippets written to 90-iocost-tune.hwdb, in order

aggVars == <<apc, aresult, adb, aengine, ascan, aversion, workers, amfs, afiles, apdfs,
             amerges, aenv, clock, aselected, aemitted>>

VARIABLES
    npc,        \* how far a device model name went: "field", "named", "keyed"
    nfield,     \* the scr_dev_model text of a result file
    nmodel,     \* the model name the importer derives from it
    nkey        \* the override variable name merge-results derives from the model name

nameVars == <<npc, nfield, nmodel, nkey>>

VARIABLES
    exit_status \* exit status of the import-results process, NotExited while it runs

EmptyMap == [x \in {} |-> 0]

NotExited == -1

MainIdle == exit_status = NotExited

Contexts ==
    { [locked |-> l, state |-> st, action |-> a, event_name |-> e,
       issue_body |-> IF e = "issues" THEN Body(b) ELSE OtherBody,
       comment_body |-> IF e = "issues" THEN NoBody ELSE Body(b)] :
        l \in BOOLEAN, st \in IssueStates, a \in Actions, e \in EventNames, b \in Bodies }

IngestInit ==
    /\ ctx \in Contexts
    /\ pc = "start"
    /\ outcome = "running"
    /\ todo = <<>>
    /\ errors = <<>>
    /\ merged = EmptyMap
    /\ cwd = EmptyMap
    /\ db = EmptyMap
    /\ sidecars = {}
    /\ index = {}
    /\ requests = <<>>
    /\ validated = <<>>
    /\ accepted = {}
    /\ comments = <<>>
    /\ described = EmptyMap
    /\ merges = <<>>
    /\ commits = <<>>

Finish(result) == pc' = "exit" /\ outcome' = result

\* format!("File {} failed validation: \n\n{}", url, e)
ErrorText(url, e) == <<"File ">> \o url \o <<" failed validation: \n\n">> \o e

RECURSIVE Join(_, _)
\* [String]::join(sep)
Join(strs, sep) ==
    IF strs = <<>> THEN <<>>
    ELSE IF Len(strs) = 1 THEN strs[1]
    ELSE strs[1] \o sep \o Join(Tail(strs), sep)

\* mutant: only the last error is reported
JoinErrors_LastOnly(es) == es[Len(es)]

\* errors.join("\n\n")
JoinErrors(es) == Join(es, <<"\n\n">>)


\* ------------------------------------------------------------------------
\* import-results: run_as_gh_workflow
\* ------------------------------------------------------------------------
\* the context cannot be read or the repository not opened, before get_urls
OpenRepoErr ==
    /\ prog = "import" /\ pc = "start"
    /\ Finish("err")
    /\ UNCHANGED <<nameVars, exit_status, mergeVars, resctlVars, aggVars, prog, ctx, todo, errors, merged, cwd, db, sidecars, index, requests,
                   validated, accepted, comments, described, merges, commits>>

\* get_urls: the issue is locked or not open
GetUrlsPanic ==
    /\ prog = "import" /\ pc = "start"
    /\ IssueRejected(ctx)
    /\ Finish("panic")
    /\ UNCHANGED <<nameVars, exit_status, mergeVars, resctlVars, aggVars, prog, ctx, todo, errors, merged, cwd, db, sidecars, index, requests,
                   validated, accepted, comments, described, merges, commits>>

\* get_urls: an event kind it does not handle (bail!)
GetUrlsUnhandled ==
    /\ prog = "import" /\ pc = "start"
    /\ ~IssueRejected(ctx)
    /\ ~HandledAction(ctx)
    /\ Finish("err")
    /\ UNCHANGED <<nameVars, exit_status, mergeVars, resctlVars, aggVars, prog, ctx, todo, errors, merged, cwd, db, sidecars, index, requests,
                   validated, accepted, comments, described, merges, commits>>

\* get_urls: the body is absent (expect)
GetUrlsNoBody ==
    /\ prog = "import" /\ pc = "start"
    /\ ~IssueRejected(ctx)
    /\ HandledAction(ctx)
    /\ ~EventBody(ctx).present
    /\ Finish("panic")
    /\ UNCHANGED <<nameVars, exit_status, mergeVars, resctlVars, aggVars, prog, ctx, todo, errors, merged, cwd, db, sidecars, index, requests,
                   validated, accepted, comments, described, merges, commits>>

\* get_urls returns the links that pass the filter
GetUrls ==
    /\ prog = "import" /\ pc = "start"
    /\ ~IssueRejected(ctx)
    /\ HandledAction(ctx)
    /\ EventBody(ctx).present
    /\ todo' = FilterUrls(EventBody(ctx).links)
    /\ pc' = "loop"
    /\ UNCHANGED <<nameVars, exit_status, mergeVars, resctlVars, aggVars, prog, ctx, outcome, errors, merged, cwd, db, sidecars, index, requests,
                   validated, accepted, comments, described, merges, commits>>

\* one loop iteration: download_url fails (reqwest or file creation)
IterDownloadErr ==
    /\ prog = "import" /\ pc = "loop" /\ todo # <<>>
    /\ requests' = Append(requests, Head(todo))
    /\ Finish("err")
    /\ UNCHANGED <<nameVars, exit_status, mergeVars, resctlVars, aggVars, prog, ctx, todo, errors, merged, cwd, db, sidecars, index,
                   validated, accepted, comments, described, merges, commits>>

\* one loop iteration: the file is downloaded, new_from_issue returns Err
IterMetadataErr ==
    /\ prog = "import" /\ pc = "loop" /\ todo # <<>>
    /\ \E b \in FileBytes :
          /\ MetaFromIssue(b).status = "err"
          /\ cwd' = WriteFile(cwd, ResultName(b), b)
    /\ requests' = Append(requests, Head(todo))
    /\ Finish("err")
    /\ UNCHANGED <<nameVars, exit_status, mergeVars, resctlVars, aggVars, prog, ctx, todo, errors, merged, db, sidecars, index,
                   validated, accepted, comments, described, merges, commits>>

\* one loop iteration: the file is downloaded, new_from_issue panics
\* (no word in the version field)
IterMetadataPanic ==
    /\ prog = "import" /\ pc = "loop" /\ todo # <<>>
    /\ \E b \in FileBytes :
          /\ MetaFromIssue(b).status = "panic"
          /\ cwd' = WriteFile(cwd, ResultName(b), b)
    /\ requests' = Append(requests, Head(todo))
    /\ Finish("panic")
    /\ UNCHANGED <<nameVars, exit_status, mergeVars, resctlVars, aggVars, prog, ctx, todo, errors, merged, db, sidecars, index,
                   validated, accepted, comments, described, merges, commits>>

\* mutant: the loop does not `continue` after a failed validation
IterValidateErr_FallsThrough ==
    /\ prog = "import" /\ pc = "loop" /\ todo # <<>>
    /\ \E b \in FileBytes :
          LET meta == MetaFromIssue(b)
              dir == BucketDir(meta.version, meta.model_name)
              db_file == <<dir, ResultName(b)>>
          IN /\ meta.status = "ok"
             /\ cwd' = RemoveFile(WriteFile(cwd, ResultName(b), b), ResultName(b))
             /\ db' = WriteFile(db, db_file, b)
             /\ sidecars' = sidecars \cup {MetadataPath(dir, ResultName(b))}
             /\ index' = index \cup {db_file, MetadataPath(dir, ResultName(b))}
             /\ accepted' = accepted \cup {<<dir, b>>}
             /\ merged' = MergedIncrement(merged, meta.version, meta.model_name)
    /\ requests' = Append(requests, Head(todo))
    /\ validated' = Append(validated, <<Head(todo), FALSE>>)
    /\ \E e \in EngineErrors : errors' = Append(errors, ErrorText(Head(todo), e))
    /\ todo' = Tail(todo)
    /\ UNCHANGED <<nameVars, exit_status, mergeVars, resctlVars, aggVars, prog, ctx, pc, outcome, comments, described, merges, commits>>

\* one loop iteration: validate() fails, the error is kept and the loop
\* continues
IterValidateErr ==
    /\ prog = "import" /\ pc = "loop" /\ todo # <<>>
    /\ \E b \in FileBytes :
          /\ MetaFromIssue(b).status = "ok"
          /\ cwd' = WriteFile(cwd, ResultName(b), b)
    /\ requests' = Append(requests, Head(todo))
    /\ validated' = Append(validated, <<Head(todo), FALSE>>)
    /\ \E e \in EngineErrors : errors' = Append(errors, ErrorText(Head(todo), e))
    /\ todo' = Tail(todo)
    /\ UNCHANGED <<nameVars, exit_status, mergeVars, resctlVars, aggVars, prog, ctx, pc, outcome, merged, db, sidecars, index,
                   accepted, comments, described, merges, commits>>

\* one loop iteration: validate() passes, add_to_database fails at
\* save_pdf_to, before anything is stored
IterPdfErr ==
    /\ prog = "import" /\ pc = "loop" /\ todo # <<>>
    /\ \E b \in FileBytes :
          /\ MetaFromIssue(b).status = "ok"
          /\ cwd' = WriteFile(cwd, ResultName(b), b)
    /\ requests' = Append(requests, Head(todo))
    /\ validated' = Append(validated, <<Head(todo), TRUE>>)
    /\ Finish("err")
    /\ UNCHANGED <<nameVars, exit_status, mergeVars, resctlVars, aggVars, prog, ctx, todo, errors, merged, db, sidecars, index,
                   accepted, comments, described, merges, commits>>

\* one loop iteration: validate() passes, add_to_database moves the file
\* into the bucket and then fails, at the sidecar or at the index
IterStoreErr ==
    /\ prog = "import" /\ pc = "loop" /\ todo # <<>>
    /\ \E b \in FileBytes, sidecar_written \in BOOLEAN :
          LET meta == MetaFromIssue(b)
              dir == BucketDir(meta.version, meta.model_name)
              db_file == <<dir, ResultName(b)>>
          IN /\ meta.status = "ok"
             /\ cwd' = RemoveFile(WriteFile(cwd, ResultName(b), b), ResultName(b))
             /\ db' = WriteFile(db, db_file, b)
             /\ sidecars' = IF sidecar_written
                            THEN sidecars \cup {MetadataPath(dir, ResultName(b))}
                            ELSE sidecars
             /\ accepted' = accepted \cup {<<dir, b>>}
    /\ requests' = Append(requests, Head(todo))
    /\ validated' = Append(validated, <<Head(todo), TRUE>>)
    /\ Finish("err")
    /\ UNCHANGED <<nameVars, exit_status, mergeVars, resctlVars, aggVars, prog, ctx, todo, errors, merged, index,
                   comments, described, merges, commits>>

\* one loop iteration: validate() passes and add_to_database stores the
\* file, its sidecar and the index entries; the group counter is incremented
IterAccept ==
    /\ prog = "import" /\ pc = "loop" /\ todo # <<>>
    /\ \E b \in FileBytes :
          LET meta == MetaFromIssue(b)
              dir == BucketDir(meta.version, meta.model_name)
              db_file == <<dir, ResultName(b)>>
          IN /\ meta.status = "ok"
             /\ cwd' = RemoveFile(WriteFile(cwd, ResultName(b), b), ResultName(b))
             /\ db' = WriteFile(db, db_file, b)
             /\ sidecars' = sidecars \cup {MetadataPath(dir, ResultName(b))}
             /\ index' = index \cup {db_file, MetadataPath(dir, ResultName(b))}
             /\ accepted' = accepted \cup {<<dir, b>>}
             /\ merged' = MergedIncrement(merged, meta.version, meta.model_name)
    /\ requests' = Append(requests, Head(todo))
    /\ validated' = Append(validated, <<Head(todo), TRUE>>)
    /\ todo' = Tail(todo)
    /\ UNCHANGED <<nameVars, exit_status, mergeVars, resctlVars, aggVars, prog, ctx, pc, outcome, errors, comments, described, merges, commits>>

\* after the loop: the errors are posted as one comment
PostComment ==
    /\ prog = "import" /\ pc = "loop" /\ todo = <<>>
    /\ errors # <<>>
    /\ comments' = Append(comments, JoinErrors(errors))
    /\ pc' = "reported"
    /\ UNCHANGED <<nameVars, exit_status, mergeVars, resctlVars, aggVars, prog, ctx, outcome, todo, errors, merged, cwd, db, sidecars, index,
                   requests, validated, accepted, described, merges, commits>>

\* after the loop: building the client or posting the comment fails
PostCommentErr ==
    /\ prog = "import" /\ pc = "loop" /\ todo = <<>>
    /\ errors # <<>>
    /\ Finish("err")
    /\ UNCHANGED <<nameVars, exit_status, mergeVars, resctlVars, aggVars, prog, ctx, todo, errors, merged, cwd, db, sidecars, index,
                   requests, validated, accepted, comments, described, merges, commits>>

\* after the loop: nothing to report
NoComment ==
    /\ prog = "import" /\ pc = "loop" /\ todo = <<>>
    /\ errors = <<>>
    /\ pc' = "reported"
    /\ UNCHANGED <<nameVars, exit_status, mergeVars, resctlVars, aggVars, prog, ctx, outcome, todo, errors, merged, cwd, db, sidecars, index,
                   requests, validated, accepted, comments, described, merges, commits>>

\* merged.is_empty(): "Found no new results files to merge..."
NoNewFiles ==
    /\ prog = "import" /\ pc = "reported"
    /\ DOMAIN merged = {}
    /\ Finish("ok")
    /\ UNCHANGED <<nameVars, exit_status, mergeVars, resctlVars, aggVars, prog, ctx, todo, errors, merged, cwd, db, sidecars, index,
                   requests, validated, accepted, comments, described, merges, commits>>

\* signature, parent commit and tree are obtained
PrepareCommit ==
    /\ prog = "import" /\ pc = "reported"
    /\ DOMAIN merged # {}
    /\ pc' = "describe"
    /\ UNCHANGED <<nameVars, exit_status, mergeVars, resctlVars, aggVars, prog, ctx, outcome, todo, errors, merged, cwd, db, sidecars, index,
                   requests, validated, accepted, comments, described, merges, commits>>

\* ... or one of the git calls fails
PrepareCommitErr ==
    /\ prog = "import" /\ pc = "reported"
    /\ DOMAIN merged # {}
    /\ Finish("err")
    /\ UNCHANGED <<nameVars, exit_status, mergeVars, resctlVars, aggVars, prog, ctx, todo, errors, merged, cwd, db, sidecars, index,
                   requests, validated, accepted, comments, described, merges, commits>>

\* ------------------------------------------------------------------------
\* HighLevel::format_high_level, called for each entry of `merged`
\* ------------------------------------------------------------------------
\* what `resctl-bench --version` may print
EngineVersionOutputs ==
    { <<"resctl-bench", " ", "2", ".", "2", ".", "2">>,
      <<"resctl-bench", " ", "2", ".", "2", ".", "3">>,
      <<"resctl-bench", " ", "2", ".", "2", ".", "3", "-", "rc">>,
      <<"resctl-bench">> }

\* BenchVersion::new: the semver of the engine of bucket `version`, from the
\* output of `--version`; every failure is a panic (unimplemented!, expect)
BenchVersionNew(version, stdout) ==
    LET words == SplitWhitespace(stdout)
        v == IF Len(words) >= 2 THEN SemverParse(words[2]) ELSE NoVersion
    IN IF version \notin {<<"2", ".", "1">>, <<"2", ".", "2">>} THEN NoVersion
       ELSE v

\* mutant: the bound of the requirement is included
MatchesLess_Inclusive(v, major, minor, patch) ==
    /\ v.pre = <<>>
    /\ \/ v.major < major
       \/ v.major = major /\ v.minor < minor
       \/ v.major = major /\ v.minor = minor /\ v.patch <= patch

\* VersionReq "<M.m.p" (no pre-release in the requirement) matches v
MatchesLess(v, major, minor, patch) ==
    /\ v.pre = <<>>
    /\ \/ v.major < major
       \/ v.major = major /\ v.minor < minor
       \/ v.major = major /\ v.minor = minor /\ v.patch < patch

\* database_directory(version, model_name)
database_directory(version, model_name) == <<"database", version, model_name>>

\* BenchMerge::result_paths_for: glob <directory>/result-*.json.gz
result_paths_for(fs, directory) == {path \in DOMAIN fs : path[1] = directory}

\* a group still to describe
Undescribed == DOMAIN merged \ DOMAIN described

Describe(k, entry) == [x \in DOMAIN described \cup {k} |-> IF x = k THEN entry ELSE described[x]]

\* format_high_level panics in BenchVersion::new: the engine cannot be run
\* or what it prints is not a version
DescribePanic ==
    /\ prog = "import" /\ pc = "describe"
    /\ \E k \in Undescribed, stdout \in EngineVersionOutputs :
          ~BenchVersionNew(merged[k].version, stdout).ok
    /\ Finish("panic")
    /\ UNCHANGED <<nameVars, exit_status, mergeVars, resctlVars, aggVars, prog, ctx, todo, errors, merged, cwd, db, sidecars, index,
                   requests, validated, accepted, comments, described, merges, commits>>

\* format_high_level panics after the gate: do_merge is run and fails, or
\* the format run that follows it fails
DescribeEnginePanic ==
    /\ prog = "import" /\ pc = "describe"
    /\ \E k \in Undescribed, stdout \in EngineVersionOutputs :
          LET v == BenchVersionNew(merged[k].version, stdout)
              dir == database_directory(merged[k].version, merged[k].model_name)
          IN /\ v.ok
             /\ ~MatchesLess(v, 2, 2, 3)
             /\ merges' = Append(merges, [key |-> k, version |-> merged[k].version,
                                          model_name |-> merged[k].model_name,
                                          inputs |-> result_paths_for(db, dir)])
             /\ described' = Describe(k, [engine |-> v, summary |-> FALSE, failed |-> TRUE])
    /\ Finish("panic")
    /\ UNCHANGED <<nameVars, exit_status, mergeVars, resctlVars, aggVars, prog, ctx, todo, errors, merged, cwd, db, sidecars, index,
                   requests, validated, accepted, comments, commits>>

\* format_high_level: the engine is older than 2.2.3, the summary is empty
\* and no merge is run
DescribeSkip ==
    /\ prog = "import" /\ pc = "describe"
    /\ \E k \in Undescribed, stdout \in EngineVersionOutputs :
          LET v == BenchVersionNew(merged[k].version, stdout)
          IN /\ v.ok
             /\ MatchesLess(v, 2, 2, 3)
             /\ described' = Describe(k, [engine |-> v, summary |-> FALSE, failed |-> FALSE])
    /\ UNCHANGED <<nameVars, exit_status, mergeVars, resctlVars, aggVars, prog, ctx, pc, outcome, todo, errors, merged, cwd, db, sidecars, index,
                   requests, validated, accepted, comments, merges, commits>>

\* format_high_level: do_merge over the bucket, then the high-level format
DescribeMerge ==
    /\ prog = "import" /\ pc = "describe"
    /\ \E k \in Undescribed, stdout \in EngineVersionOutputs :
          LET v == BenchVersionNew(merged[k].version, stdout)
              dir == database_directory(merged[k].version, merged[k].model_name)
          IN /\ v.ok
             /\ ~MatchesLess(v, 2, 2, 3)
             /\ merges' = Append(merges, [key |-> k, version |-> merged[k].version,
                                          model_name |-> merged[k].model_name,
                                          inputs |-> result_paths_for(db, dir)])
             /\ described' = Describe(k, [engine |-> v, summary |-> TRUE, failed |-> FALSE])
    /\ UNCHANGED <<nameVars, exit_status, mergeVars, resctlVars, aggVars, prog, ctx, pc, outcome, todo, errors, merged, cwd, db, sidecars, index,
                   requests, validated, accepted, comments, commits>>

\* the commit and the branch are created
Commit ==
    /\ prog = "import" /\ pc = "describe"
    /\ Undescribed = {}
    /\ commits' = Append(commits, [paths |-> index, groups |-> merged])
    /\ Finish("ok")
    /\ UNCHANGED <<nameVars, exit_status, mergeVars, resctlVars, aggVars, prog, ctx, todo, errors, merged, cwd, db, sidecars, index,
                   requests, validated, accepted, comments, described, merges>>

\* ... or git fails
CommitErr ==
    /\ prog = "import" /\ pc = "describe"
    /\ Undescribed = {}
    /\ Finish("err")
    /\ UNCHANGED <<nameVars, exit_status, mergeVars, resctlVars, aggVars, prog, ctx, todo, errors, merged, cwd, db, sidecars, index,
                   requests, validated, accepted, comments, described, merges, commits>>

\* ------------------------------------------------------------------------
\* benchmark.rs: process_submission
\* ------------------------------------------------------------------------
SubmissionPrefix == <<"https://github.com/", "iocost-benchmark/benchmarks/files/">>

SubmissionAction(c) == c.action \in {"opened", "edited"}

\* the issue is closed or locked: return Ok(())
SubmissionBail ==
    /\ prog = "ci" /\ pc = "start"
    /\ (ctx.state # "open" \/ ctx.locked)
    /\ Finish("ok")
    /\ UNCHANGED <<nameVars, exit_status, mergeVars, resctlVars, aggVars, prog, ctx, todo, errors, merged, cwd, db, sidecars, index, requests,
                   validated, accepted, comments, described, merges, commits>>

\* "submission type not implemented"
SubmissionBadAction ==
    /\ prog = "ci" /\ pc = "start"
    /\ ~(ctx.state # "open" \/ ctx.locked)
    /\ ~SubmissionAction(ctx)
    /\ Finish("err")
    /\ UNCHANGED <<nameVars, exit_status, mergeVars, resctlVars, aggVars, prog, ctx, todo, errors, merged, cwd, db, sidecars, index, requests,
                   validated, accepted, comments, described, merges, commits>>

\* the links of the issue body are walked
SubmissionStart ==
    /\ prog = "ci" /\ pc = "start"
    /\ ~(ctx.state # "open" \/ ctx.locked)
    /\ SubmissionAction(ctx)
    /\ todo' = ctx.issue_body.links
    /\ pc' = "loop"
    /\ UNCHANGED <<nameVars, exit_status, mergeVars, resctlVars, aggVars, prog, ctx, outcome, errors, merged, cwd, db, sidecars, index, requests,
                   validated, accepted, comments, described, merges, commits>>

\* a link that is not an attachment of the project, or not a .json.gz
SubmissionLinkErr ==
    /\ prog = "ci" /\ pc = "loop" /\ todo # <<>>
    /\ (~StartsWith(Head(todo), SubmissionPrefix) \/ ~EndsWith(Head(todo), <<".json.gz">>))
    /\ Finish("err")
    /\ UNCHANGED <<nameVars, exit_status, mergeVars, resctlVars, aggVars, prog, ctx, todo, errors, merged, cwd, db, sidecars, index, requests,
                   validated, accepted, comments, described, merges, commits>>

\* the link is fetched into the temporary directory
SubmissionDownload ==
    /\ prog = "ci" /\ pc = "loop" /\ todo # <<>>
    /\ StartsWith(Head(todo), SubmissionPrefix) /\ EndsWith(Head(todo), <<".json.gz">>)
    /\ requests' = Append(requests, Head(todo))
    /\ todo' = Tail(todo)
    /\ UNCHANGED <<nameVars, exit_status, mergeVars, resctlVars, aggVars, prog, ctx, pc, outcome, errors, merged, cwd, db, sidecars, index,
                   validated, accepted, comments, described, merges, commits>>

\* ... or the fetch fails
SubmissionDownloadErr ==
    /\ prog = "ci" /\ pc = "loop" /\ todo # <<>>
    /\ StartsWith(Head(todo), SubmissionPrefix) /\ EndsWith(Head(todo), <<".json.gz">>)
    /\ requests' = Append(requests, Head(todo))
    /\ Finish("err")
    /\ UNCHANGED <<nameVars, exit_status, mergeVars, resctlVars, aggVars, prog, ctx, todo, errors, merged, cwd, db, sidecars, index,
                   validated, accepted, comments, described, merges, commits>>

\* the greeting comment is posted
SubmissionComment ==
    /\ prog = "ci" /\ pc = "loop" /\ todo = <<>>
    /\ comments' = Append(comments, <<"Hello and thank you for your submission!">>)
    /\ Finish("ok")
    /\ UNCHANGED <<nameVars, exit_status, mergeVars, resctlVars, aggVars, prog, ctx, todo, errors, merged, cwd, db, sidecars, index, requests,
                   validated, accepted, described, merges, commits>>

\* ... or posting fails
SubmissionCommentErr ==
    /\ prog = "ci" /\ pc = "loop" /\ todo = <<>>
    /\ Finish("err")
    /\ UNCHANGED <<nameVars, exit_status, mergeVars, resctlVars, aggVars, prog, ctx, todo, errors, merged, cwd, db, sidecars, index, requests,
                   validated, accepted, comments, described, merges, commits>>

IngestNext ==
    \/ OpenRepoErr
    \/ GetUrlsPanic \/ GetUrlsUnhandled \/ GetUrlsNoBody \/ GetUrls
    \/ IterDownloadErr \/ IterMetadataErr \/ IterMetadataPanic
    \/ IterValidateErr \/ IterPdfErr \/ IterStoreErr \/ IterAccept
    \/ PostComment \/ PostCommentErr \/ NoComment
    \/ NoNewFiles \/ PrepareCommit \/ PrepareCommitErr
    \/ DescribePanic \/ DescribeEnginePanic \/ DescribeSkip \/ DescribeMerge \/ Commit \/ CommitErr
    \/ SubmissionBail \/ SubmissionBadAction \/ SubmissionStart
    \/ SubmissionLinkErr \/ SubmissionDownload \/ SubmissionDownloadErr
    \/ SubmissionComment \/ SubmissionCommentErr

\* ------------------------------------------------------------------------
\* common.rs: BenchMerge::merge and try_fwmerge
\* ------------------------------------------------------------------------
MINIMUM_DATA_POINTS == 4

MINIMUM_DIFFERENT_RESULTS == 1

\* bound on the result files of a bucket
MaxResults == 2

\* firmware revisions found in result files
Fwrevs == { <<"1">>, <<"2">>, <<"1", "0">> }

RECURSIVE StrLess(_, _)
\* str::cmp(a, b) = Less: byte-wise lexicographic order
StrLess(a, b) ==
    IF b = <<>> THEN FALSE
    ELSE IF a = <<>> THEN TRUE
    ELSE IF Head(a) # Head(b) THEN Digit[Head(a)] < Digit[Head(b)]
    ELSE StrLess(Tail(a), Tail(b))

\* Iterator::max_by(|a, b| a.cmp(b)) over the revisions of the results
MaxFwrev(results) ==
    CHOOSE f \in {results[r] : r \in DOMAIN results} :
        \A r \in DOMAIN results : ~StrLess(f, results[r])

\* Option<&str>
None == [some |-> FALSE, v |-> <<>>]

Some(str) == [some |-> TRUE, v |-> str]

\* merged_file(version, model_name, detail)
merged_file(version, model_name, detail) ==
    <<"merged-results",
      version \o <<"-">> \o model_name \o <<"-">>
        \o (IF detail.some THEN detail.v \o <<"-">> ELSE <<>>)
        \o <<"merged-results.json.gz">>>>

\* (data_points as i64 - common_data_points as i64).unsigned_abs()
AbsDiff(a, b) == IF a >= b THEN a - b ELSE b - a

\* mutant: either condition is enough to return the candidate
FwKeep_Either(data_points, common_data_points) ==
    \/ AbsDiff(data_points, common_data_points) >= MINIMUM_DIFFERENT_RESULTS
    \/ data_points >= MINIMUM_DATA_POINTS

\* mutant: the difference from the bucket-wide merge is not tested
FwKeep_SizeOnly(data_points, common_data_points) == data_points >= MINIMUM_DATA_POINTS

\* the test of try_fwmerge for returning the candidate
FwKeep(data_points, common_data_points) ==
    /\ AbsDiff(data_points, common_data_points) >= MINIMUM_DIFFERENT_RESULTS
    /\ data_points >= MINIMUM_DATA_POINTS

\* data points of a candidate file left by an earlier run
StaleDP == 5

NoFw == [some |-> FALSE, fwrev |-> <<>>, path |-> <<>>, data_points |-> 0]

Running == [status |-> "running", data_points |-> 0, fwmerge |-> NoFw]

MergeInit ==
    /\ mpc = "do_merge"
    /\ mbucket = [version |-> <<"2", ".", "2">>, model_name |-> <<"A">>]
    /\ \E n \in 0..MaxResults : mresults \in [1..n -> Fwrevs]
    /\ mfs \in {EmptyMap} \cup
               {[x \in {merged_file(<<"2", ".", "2">>, <<"A">>, Some(f))} |-> d] :
                   f \in Fwrevs, d \in {StaleDP}}
    /\ common_dp = 0
    /\ fw = NoFw
    /\ mret = Running

MergeIdle ==
    /\ mpc = "idle"
    /\ mbucket = [version |-> <<>>, model_name |-> <<>>]
    /\ mresults = <<>>
    /\ mfs = EmptyMap
    /\ common_dp = 0
    /\ fw = NoFw
    /\ mret = Running

IngestIdle ==
    /\ ctx = [locked |-> TRUE, state |-> "closed", action |-> "closed",
              event_name |-> "issues", issue_body |-> NoBody, comment_body |-> NoBody]
    /\ pc = "idle"
    /\ outcome = "running"
    /\ todo = <<>>
    /\ errors = <<>>
    /\ merged = EmptyMap
    /\ cwd = EmptyMap
    /\ db = EmptyMap
    /\ sidecars = {}
    /\ index = {}
    /\ requests = <<>>
    /\ validated = <<>>
    /\ accepted = {}
    /\ comments = <<>>
    /\ described = EmptyMap
    /\ merges = <<>>
    /\ commits = <<>>

MReturn(status) == mpc' = "done" /\ mret' = [mret EXCEPT !.status = status]

\* do_merge runs the engine over the bucket, get_data_points reads the count
MergeGeneric ==
    /\ prog = "merge" /\ mpc = "do_merge"
    /\ \E d \in 0..MaxDP :
          /\ mfs' = WriteFile(mfs, merged_file(mbucket.version, mbucket.model_name, None), d)
          /\ common_dp' = d
    /\ mpc' = "try_fwmerge"
    /\ UNCHANGED <<nameVars, exit_status, ingestVars, resctlVars, aggVars, prog, mbucket, mresults, fw, mret>>

\* do_merge fails: merge returns the error
MergeGenericErr ==
    /\ prog = "merge" /\ mpc = "do_merge"
    /\ MReturn("err")
    /\ UNCHANGED <<nameVars, exit_status, ingestVars, resctlVars, aggVars, prog, mbucket, mresults, mfs, common_dp, fw>>

\* try_fwmerge: no result file in the directory, max_by gives None (unwrap)
FwNoResults ==
    /\ prog = "merge" /\ mpc = "try_fwmerge"
    /\ DOMAIN mresults = {}
    /\ MReturn("panic")
    /\ UNCHANGED <<nameVars, exit_status, ingestVars, resctlVars, aggVars, prog, mbucket, mresults, mfs, common_dp, fw>>

\* try_fwmerge: the engine run over the latest revision's files fails
FwMergeErr ==
    /\ prog = "merge" /\ mpc = "try_fwmerge"
    /\ DOMAIN mresults # {}
    /\ MReturn("err")
    /\ UNCHANGED <<nameVars, exit_status, ingestVars, resctlVars, aggVars, prog, mbucket, mresults, mfs, common_dp, fw>>

\* try_fwmerge: the candidate is merged, counted and returned
FwMergeKeep ==
    /\ prog = "merge" /\ mpc = "try_fwmerge"
    /\ DOMAIN mresults # {}
    /\ \E d \in 0..MaxDP :
          LET max_fwrev == MaxFwrev(mresults)
              output_path == merged_file(mbucket.version, mbucket.model_name, Some(max_fwrev))
          IN /\ FwKeep(d, common_dp)
             /\ mfs' = WriteFile(mfs, output_path, d)
             /\ fw' = [some |-> TRUE, fwrev |-> max_fwrev, path |-> output_path,
                       data_points |-> d]
    /\ mpc' = "finish"
    /\ UNCHANGED <<nameVars, exit_status, ingestVars, resctlVars, aggVars, prog, mbucket, mresults, common_dp, mret>>

\* try_fwmerge: the candidate is merged, counted, deleted; None is returned
FwMergeDiscard ==
    /\ prog = "merge" /\ mpc = "try_fwmerge"
    /\ DOMAIN mresults # {}
    /\ \E d \in 0..MaxDP :
          LET max_fwrev == MaxFwrev(mresults)
              output_path == merged_file(mbucket.version, mbucket.model_name, Some(max_fwrev))
          IN /\ ~FwKeep(d, common_dp)
             /\ mfs' = RemoveFile(WriteFile(mfs, output_path, d), output_path)
             /\ fw' = [some |-> FALSE, fwrev |-> max_fwrev, path |-> output_path,
                       data_points |-> d]
    /\ mpc' = "finish"
    /\ UNCHANGED <<nameVars, exit_status, ingestVars, resctlVars, aggVars, prog, mbucket, mresults, common_dp, mret>>

\* merge returns Ok(BenchMerge { data_points, fwmerge, .. })
MergeOk ==
    /\ prog = "merge" /\ mpc = "finish"
    /\ mpc' = "done"
    /\ mret' = [status |-> "ok", data_points |-> common_dp,
                fwmerge |-> IF fw.some THEN fw ELSE NoFw]
    /\ UNCHANGED <<nameVars, exit_status, ingestVars, resctlVars, aggVars, prog, mbucket, mresults, mfs, common_dp, fw>>

\* BenchVersion::new panics in merge
MergeVersionPanic ==
    /\ prog = "merge" /\ mpc = "finish"
    /\ MReturn("panic")
    /\ UNCHANGED <<nameVars, exit_status, ingestVars, resctlVars, aggVars, prog, mbucket, mresults, mfs, common_dp, fw>>

MergeNext ==
    \/ MergeGeneric \/ MergeGenericErr
    \/ FwNoResults \/ FwMergeErr \/ FwMergeKeep \/ FwMergeDiscard
    \/ MergeOk \/ MergeVersionPanic

\* ------------------------------------------------------------------------
\* common.rs: run_resctl
\* ------------------------------------------------------------------------
\* longest output of the subprocess, in bytes
MaxOut == 2

\* bytes a subprocess writes: two ASCII letters and one byte that no UTF-8
\* text contains
OutBytes == {"o", "e", "xFF"}

ByteStrings == UNION { [1..n -> OutBytes] : n \in 0..MaxOut }

ExitCodes == {0, 1}

\* String::from_utf8: the bytes as text, or FromUtf8Error
FromUtf8(bytes) ==
    IF \A i \in 1..Len(bytes) : bytes[i] # "xFF"
    THEN [ok |-> TRUE, text |-> bytes]
    ELSE [ok |-> FALSE, text |-> <<"invalid utf-8 sequence">>]

\* Command::output(): Err when the binary cannot be started
NoProcess == [spawned |-> FALSE, status |-> 0, stdout |-> <<>>, stderr |-> <<>>]

Processes ==
    {NoProcess} \cup
    { [spawned |-> TRUE, status |-> c, stdout |-> o, stderr |-> e] :
        c \in ExitCodes, o \in ByteStrings, e \in ByteStrings }

RErr(text) == [status |-> "err", text |-> text]

ROk(text) == [status |-> "ok", text |-> text]

\* mutant: the exit status decides
run_resctl_ExitStatus(output) ==
    IF ~output.spawned THEN RErr(<<"No such file or directory">>)
    ELSE IF output.status # 0
         THEN RErr(FromUtf8(output.stderr).text)
         ELSE IF FromUtf8(output.stdout).ok THEN ROk(FromUtf8(output.stdout).text)
              ELSE RErr(FromUtf8(output.stdout).text)

\* run_resctl, from the result of Command::output()
run_resctl(output) ==
    IF ~output.spawned THEN RErr(<<"No such file or directory">>)
    ELSE IF output.stderr # <<>>
         THEN RErr(FromUtf8(output.stderr).text)
         ELSE IF FromUtf8(output.stdout).ok THEN ROk(FromUtf8(output.stdout).text)
              ELSE RErr(FromUtf8(output.stdout).text)

NotReturned == [status |-> "running", text |-> <<>>]

ResctlInit ==
    /\ rpc = "call"
    /\ rproc \in Processes
    /\ rret = NotReturned

ResctlIdle ==
    /\ rpc = "idle"
    /\ rproc = NoProcess
    /\ rret = NotReturned

\* one call of run_resctl
RunResctl ==
    /\ prog = "resctl" /\ rpc = "call"
    /\ rret' = run_resctl(rproc)
    /\ rpc' = "done"
    /\ UNCHANGED <<nameVars, exit_status, ingestVars, mergeVars, aggVars, prog, rproc>>

ResctlNext == RunResctl

\* ------------------------------------------------------------------------
\* merge-results.rs: the aggregator, and what it calls in common.rs
\* ------------------------------------------------------------------------
\* largest reading of the clock
MaxClock == 1

\* DateTime<Utc> as Display prints it, one text per instant
Dates == <<"t0", "t1", "t2", "t3">>

DateStr(t) == Dates[t + 1]

\* BenchMerge::build_descriptive_filename(extension, detail) at instant `date`
build_descriptive_filename(version_str, model_name, date, extension, detail) ==
    <<"iocost-tune-">> \o version_str \o <<"-">> \o model_name \o <<"-", DateStr(date)>>
        \o (IF detail.some THEN detail.v \o <<"-">> ELSE <<>>)
        \o (IF extension = <<>> THEN <<>> ELSE <<".">> \o extension)

\* mutant: pre-releases of 2.2.4 do not match
MatchesHwdbReq_ReleasesOnly(v) ==
    /\ v.pre = <<>>
    /\ \/ v.major > 2
       \/ v.major = 2 /\ v.minor > 2
       \/ v.major = 2 /\ v.minor = 2 /\ v.patch >= 4

\* VersionReq ">=2.2.4-0" matches v: a release from 2.2.4 on, or any
\* pre-release of 2.2.4 itself
MatchesHwdbReq(v) ==
    \/ /\ v.pre = <<>>
       /\ \/ v.major > 2
          \/ v.major = 2 /\ v.minor > 2
          \/ v.major = 2 /\ v.minor = 2 /\ v.patch >= 4
    \/ v.pre # <<>> /\ v.major = 2 /\ v.minor = 2 /\ v.patch = 4

\* str::replace('-', "_")
\* mutant: every character that is not a letter or a digit is replaced
ReplaceDash_NonAlphanumeric(s) ==
    [i \in 1..Len(s) |-> IF s[i] \in {"A", "B", "7"} THEN s[i] ELSE "_"]

\* model.replace('-', "_")
ReplaceDash(s) == [i \in 1..Len(s) |-> IF s[i] = "-" THEN "_" ELSE s[i]]

\* format!("OVERRIDE_BEST_{}", model.replace('-', "_"))
override_var(model) == <<"OVERRIDE_BEST_">> \o ReplaceDash(model)

\* mutant: the alternative with the fewest data points
max_by_key_Min(alternatives) ==
    alternatives[CHOOSE i \in 1..Len(alternatives) :
        /\ \A j \in 1..Len(alternatives) :
              alternatives[j].data_points >= alternatives[i].data_points
        /\ \A j \in (i + 1)..Len(alternatives) :
              alternatives[j].data_points > alternatives[i].data_points]

\* Iterator::max_by_key(|x| x.data_points): the last of the greatest
max_by_key(alternatives) ==
    alternatives[CHOOSE i \in 1..Len(alternatives) :
        /\ \A j \in 1..Len(alternatives) :
              alternatives[j].data_points <= alternatives[i].data_points
        /\ \A j \in (i + 1)..Len(alternatives) :
              alternatives[j].data_points < alternatives[i].data_points]

\* PathBuf::join: an absolute path replaces the base
PathJoin(base, path) == IF path # <<>> /\ path[1] = "/" THEN path ELSE base \o path

\* the working directory of the run
WorkDir == <<"/", "work">>

\* a path as the file system sees it from the working directory
Resolve(path) == PathJoin(WorkDir, path)

\* Path::exists
PathExists(fs, path) == Resolve(path) \in DOMAIN fs

V21 == <<"2", ".", "1">>

V22 == <<"2", ".", "2">>

V23 == <<"2", ".", "3">>

\* glob("database/*") yields the version directories in alphabetical order
VersionOrder == <<V21, V22, V23>>

Bucket(version, model_name) == [version |-> version, model_name |-> model_name]

ModelA == <<"A">>

ModelB == <<"B">>

ModelAB == <<"A", "-", "B">>

\* a database of model directories, each with result files whose latest
\* firmware revision is `fwrev`
Database(b1, fwrev1, b2, fwrev2) == [b \in {b1, b2} |-> IF b = b1 THEN fwrev1 ELSE fwrev2]

Layouts ==
    { Database(Bucket(V22, ModelAB), <<"1">>, Bucket(V22, ModelA), <<"B">>),
      Database(Bucket(V22, ModelAB), <<"1">>, Bucket(V22, ModelA), <<"B", "-", "1">>),
      Database(Bucket(V22, ModelB), <<"1">>, Bucket(V22, ModelA), <<"1">>),
      Database(Bucket(V21, ModelA), <<"1">>, Bucket(V22, ModelA), <<"1">>),
      Database(Bucket(V22, ModelA), <<"1">>, Bucket(V23, ModelA), <<"1">>) }

\* what `resctl-bench --version` prints in the aggregator's runs
AggEngineOutputs ==
    { <<"resctl-bench", " ", "2", ".", "2", ".", "3">>,
      <<"resctl-bench", " ", "2", ".", "2", ".", "4">>,
      <<"resctl-bench", " ", "2", ".", "2", ".", "4", "-", "rc">> }

\* data points the engine reports for a bucket-wide merge
GenericDPs == {MaxDP - 2, MaxDP - 1}

\* data points the engine reports for a firmware-specific merge
FwDPs == {MINIMUM_DATA_POINTS - 1, MaxDP - 1}

NoCause == "none"

AggRunning == [status |-> "running", cause |-> NoCause]

\* a closure of par_iter that has not run yet
NewWorker ==
    [pc |-> "merge", data_points |-> 0, fwmerge |-> NoFw, semver |-> NoVersion,
     calls |-> <<>>, cause |-> NoCause]

NoWorkers == [m \in {} |-> NewWorker]

\* the contents of a merged file: which merge the engine wrote there
Merged(version, model_name, detail, dp) ==
    [version |-> version, model_name |-> model_name, detail |-> detail, dp |-> dp]

AggInit ==
    /\ apc = "scan"
    /\ aresult = AggRunning
    /\ adb \in Layouts
    /\ aengine \in AggEngineOutputs
    /\ ascan = SelectSeq(VersionOrder, LAMBDA v : \E b \in DOMAIN adb : b.version = v)
    /\ aversion = <<>>
    /\ workers = NoWorkers
    /\ amfs = EmptyMap
    /\ afiles = EmptyMap
    /\ apdfs = {}
    /\ amerges = EmptyMap
    /\ aenv = EmptyMap
    /\ clock = 0
    /\ aselected = <<>>
    /\ aemitted = <<>>

AggIdle ==
    /\ apc = "idle"
    /\ aresult = AggRunning
    /\ adb = EmptyMap
    /\ aengine = <<>>
    /\ ascan = <<>>
    /\ aversion = <<>>
    /\ workers = NoWorkers
    /\ amfs = EmptyMap
    /\ afiles = EmptyMap
    /\ apdfs = {}
    /\ amerges = EmptyMap
    /\ aenv = EmptyMap
    /\ clock = 0
    /\ aselected = <<>>
    /\ aemitted = <<>>

AggProg == prog \in {"aggregate", "select"}

\* time passes
Tick ==
    /\ AggProg /\ apc \in {"workers", "context", "select"}
    /\ clock < MaxClock
    /\ clock' = clock + 1
    /\ UNCHANGED <<nameVars, exit_status, ingestVars, mergeVars, resctlVars, prog, apc, aresult, adb, aengine, ascan,
                   aversion, workers, amfs, afiles, apdfs, amerges, aenv, aselected, aemitted>>

AggExit(status, cause) == apc' = "exit" /\ aresult' = [status |-> status, cause |-> cause]

\* version "2.1" is skipped
AggSkipLegacy ==
    /\ prog = "aggregate" /\ apc = "scan"
    /\ ascan # <<>> /\ Head(ascan) = V21
    /\ ascan' = Tail(ascan)
    /\ UNCHANGED <<nameVars, exit_status, ingestVars, mergeVars, resctlVars, prog, apc, aresult, adb, aengine,
                   aversion, workers, amfs, afiles, apdfs, amerges, aenv, clock, aselected, aemitted>>

\* paths.par_iter().for_each(...): one closure per model directory
AggFanOut ==
    /\ prog = "aggregate" /\ apc = "scan"
    /\ ascan # <<>> /\ Head(ascan) # V21
    /\ aversion' = Head(ascan)
    /\ ascan' = Tail(ascan)
    /\ workers' = [m \in {b.model_name : b \in {x \in DOMAIN adb : x.version = Head(ascan)}}
                      |-> NewWorker]
    /\ apc' = "workers"
    /\ UNCHANGED <<nameVars, exit_status, ingestVars, mergeVars, resctlVars, prog, aresult, adb, aengine,
                   amfs, afiles, apdfs, amerges, aenv, clock, aselected, aemitted>>

\* the closure for model directory m stands at `at`
WAt(m, at) == prog = "aggregate" /\ apc = "workers" /\ workers[m].pc = at

\* one engine invocation, as remembered by the closure
Call(mode, ok) == [mode |-> mode, ok |-> ok]

WStep(m, to, call) ==
    workers' = [workers EXCEPT ![m].pc = to, ![m].calls = Append(@, call)]

\* .expect(cause) on an Err, or a panic below it
WPanic(m, cause) == workers' = [workers EXCEPT ![m].pc = "panic", ![m].cause = cause]

WPanicAfter(m, cause, call) ==
    workers' = [workers EXCEPT ![m].pc = "panic", ![m].cause = cause,
                               ![m].calls = Append(@, call)]

GenericPath(m) == merged_file(aversion, m, None)

FwPath(m) == merged_file(aversion, m, Some(adb[Bucket(aversion, m)]))

\* a snippet the engine formats from a merged file
Snippet(kind, of) == [kind |-> kind, of |-> of]

\* hwdb-inputs/<filename>
HwdbInput(filename) == Resolve(PathJoin(<<"hwdb-inputs/">>, filename))

\* merge: do_merge writes the bucket-wide merge
WDoMerge ==
    \E m \in DOMAIN workers, d \in GenericDPs :
        /\ WAt(m, "merge")
        /\ amfs' = WriteFile(amfs, GenericPath(m), Merged(aversion, m, None, d))
        /\ WStep(m, "count", Call("merge", TRUE))
        /\ UNCHANGED <<nameVars, exit_status, ingestVars, mergeVars, resctlVars, prog, apc, aresult, adb, aengine, ascan,
                   aversion, afiles, apdfs, amerges, aenv, clock, aselected, aemitted>>

\* merge: the engine fails in do_merge
WDoMergeErr ==
    \E m \in DOMAIN workers :
        /\ WAt(m, "merge")
        /\ WPanicAfter(m, "Failed to merge", Call("merge", FALSE))
        /\ UNCHANGED <<nameVars, exit_status, ingestVars, mergeVars, resctlVars, prog, apc, aresult, adb, aengine, ascan,
                   aversion, amfs, afiles, apdfs, amerges, aenv, clock, aselected, aemitted>>

\* merge: get_data_points reads the file at the bucket-wide path
WCount ==
    \E m \in DOMAIN workers :
        /\ WAt(m, "count")
        /\ GenericPath(m) \in DOMAIN amfs
        /\ workers' = [workers EXCEPT ![m].pc = "fwmerge",
                                      ![m].data_points = amfs[GenericPath(m)].dp]
        /\ UNCHANGED <<nameVars, exit_status, ingestVars, mergeVars, resctlVars, prog, apc, aresult, adb, aengine, ascan,
                   aversion, amfs, afiles, apdfs, amerges, aenv, clock, aselected, aemitted>>

\* merge: no file at the bucket-wide path, load_json fails
WCountErr ==
    \E m \in DOMAIN workers :
        /\ WAt(m, "count")
        /\ GenericPath(m) \notin DOMAIN amfs
        /\ WPanic(m, "Failed to merge")
        /\ UNCHANGED <<nameVars, exit_status, ingestVars, mergeVars, resctlVars, prog, apc, aresult, adb, aengine, ascan,
                   aversion, amfs, afiles, apdfs, amerges, aenv, clock, aselected, aemitted>>

\* try_fwmerge: the engine writes the merge of the latest revision's files
WFwMerge ==
    \E m \in DOMAIN workers, d \in FwDPs :
        /\ WAt(m, "fwmerge")
        /\ amfs' = WriteFile(amfs, FwPath(m),
                             Merged(aversion, m, Some(adb[Bucket(aversion, m)]), d))
        /\ WStep(m, "fwcount", Call("fwmerge", TRUE))
        /\ UNCHANGED <<nameVars, exit_status, ingestVars, mergeVars, resctlVars, prog, apc, aresult, adb, aengine, ascan,
                   aversion, afiles, apdfs, amerges, aenv, clock, aselected, aemitted>>

\* mutant: a failed firmware merge is taken for "no candidate"
WFwMergeErr_Continues ==
    \E m \in DOMAIN workers :
        /\ WAt(m, "fwmerge")
        /\ WStep(m, "version", Call("fwmerge", FALSE))
        /\ UNCHANGED <<nameVars, exit_status, ingestVars, mergeVars, resctlVars, prog, apc, aresult, adb, aengine, ascan,
                       aversion, amfs, afiles, apdfs, amerges, aenv, clock, aselected, aemitted>>

\* try_fwmerge: the engine fails
WFwMergeErr ==
    \E m \in DOMAIN workers :
        /\ WAt(m, "fwmerge")
        /\ WPanicAfter(m, "Failed to merge", Call("fwmerge", FALSE))
        /\ UNCHANGED <<nameVars, exit_status, ingestVars, mergeVars, resctlVars, prog, apc, aresult, adb, aengine, ascan,
                   aversion, amfs, afiles, apdfs, amerges, aenv, clock, aselected, aemitted>>

\* try_fwmerge: get_data_points of the candidate and the test on it
WFwCount ==
    \E m \in DOMAIN workers :
        /\ WAt(m, "fwcount")
        /\ FwPath(m) \in DOMAIN amfs
        /\ LET d == amfs[FwPath(m)].dp
           IN workers' =
                IF FwKeep(d, workers[m].data_points)
                THEN [workers EXCEPT ![m].pc = "version",
                         ![m].fwmerge = [some |-> TRUE, fwrev |-> adb[Bucket(aversion, m)],
                                         path |-> FwPath(m), data_points |-> d]]
                ELSE [workers EXCEPT ![m].pc = "fwremove"]
        /\ UNCHANGED <<nameVars, exit_status, ingestVars, mergeVars, resctlVars, prog, apc, aresult, adb, aengine, ascan,
                   aversion, amfs, afiles, apdfs, amerges, aenv, clock, aselected, aemitted>>

\* try_fwmerge: no file at the candidate's path
WFwCountErr ==
    \E m \in DOMAIN workers :
        /\ WAt(m, "fwcount")
        /\ FwPath(m) \notin DOMAIN amfs
        /\ WPanic(m, "Failed to merge")
        /\ UNCHANGED <<nameVars, exit_status, ingestVars, mergeVars, resctlVars, prog, apc, aresult, adb, aengine, ascan,
                   aversion, amfs, afiles, apdfs, amerges, aenv, clock, aselected, aemitted>>

\* try_fwmerge: remove_file(output_path) of a discarded candidate
WFwRemove ==
    \E m \in DOMAIN workers :
        /\ WAt(m, "fwremove")
        /\ FwPath(m) \in DOMAIN amfs
        /\ amfs' = RemoveFile(amfs, FwPath(m))
        /\ workers' = [workers EXCEPT ![m].pc = "version"]
        /\ UNCHANGED <<nameVars, exit_status, ingestVars, mergeVars, resctlVars, prog, apc, aresult, adb, aengine, ascan,
                   aversion, afiles, apdfs, amerges, aenv, clock, aselected, aemitted>>

\* try_fwmerge: remove_file fails, the file is gone already
WFwRemoveErr ==
    \E m \in DOMAIN workers :
        /\ WAt(m, "fwremove")
        /\ FwPath(m) \notin DOMAIN amfs
        /\ WPanic(m, "Failed to merge")
        /\ UNCHANGED <<nameVars, exit_status, ingestVars, mergeVars, resctlVars, prog, apc, aresult, adb, aengine, ascan,
                   aversion, amfs, afiles, apdfs, amerges, aenv, clock, aselected, aemitted>>

\* merge: BenchVersion::new(&version)
WVersion ==
    \E m \in DOMAIN workers :
        /\ WAt(m, "version")
        /\ BenchVersionNew(aversion, aengine).ok
        /\ workers' = [workers EXCEPT ![m].pc = "pdf",
                                      ![m].semver = BenchVersionNew(aversion, aengine)]
        /\ UNCHANGED <<nameVars, exit_status, ingestVars, mergeVars, resctlVars, prog, apc, aresult, adb, aengine, ascan,
                   aversion, amfs, afiles, apdfs, amerges, aenv, clock, aselected, aemitted>>

\* merge: BenchVersion::new panics (unimplemented!, expect)
WVersionPanic ==
    \E m \in DOMAIN workers :
        /\ WAt(m, "version")
        /\ ~BenchVersionNew(aversion, aengine).ok
        /\ WPanic(m, "BenchVersion::new")
        /\ UNCHANGED <<nameVars, exit_status, ingestVars, mergeVars, resctlVars, prog, apc, aresult, adb, aengine, ascan,
                   aversion, amfs, afiles, apdfs, amerges, aenv, clock, aselected, aemitted>>

\* save_pdf_in: the engine renders the bucket-wide merge
WPdf ==
    \E m \in DOMAIN workers :
        /\ WAt(m, "pdf")
        /\ GenericPath(m) \in DOMAIN amfs
        /\ apdfs' = apdfs \cup
              {[name |-> build_descriptive_filename(aversion, m, clock, <<"pdf">>, None),
                of |-> amfs[GenericPath(m)]]}
        /\ WStep(m, "hwdb", Call("pdf", TRUE))
        /\ UNCHANGED <<nameVars, exit_status, ingestVars, mergeVars, resctlVars, prog, apc, aresult, adb, aengine, ascan,
                   aversion, amfs, afiles, amerges, aenv, clock, aselected, aemitted>>

\* save_pdf_in: the engine fails
WPdfErr ==
    \E m \in DOMAIN workers :
        /\ WAt(m, "pdf")
        /\ WPanicAfter(m, "Failed to save PDF", Call("pdf", FALSE))
        /\ UNCHANGED <<nameVars, exit_status, ingestVars, mergeVars, resctlVars, prog, apc, aresult, adb, aengine, ascan,
                   aversion, amfs, afiles, apdfs, amerges, aenv, clock, aselected, aemitted>>

\* create_hwdb_in: the engine does not match ">=2.2.4-0", Ok(()) without a file
WHwdbSkip ==
    \E m \in DOMAIN workers :
        /\ WAt(m, "hwdb")
        /\ ~MatchesHwdbReq(workers[m].semver)
        /\ workers' = [workers EXCEPT ![m].pc = "insert"]
        /\ UNCHANGED <<nameVars, exit_status, ingestVars, mergeVars, resctlVars, prog, apc, aresult, adb, aengine, ascan,
                   aversion, amfs, afiles, apdfs, amerges, aenv, clock, aselected, aemitted>>

\* create_hwdb_in: the file is created and the snippets written to it
WHwdb ==
    \E m \in DOMAIN workers :
        /\ WAt(m, "hwdb")
        /\ MatchesHwdbReq(workers[m].semver)
        /\ GenericPath(m) \in DOMAIN amfs
        /\ workers[m].fwmerge.some => workers[m].fwmerge.path \in DOMAIN amfs
        /\ afiles' = WriteFile(afiles,
              HwdbInput(build_descriptive_filename(aversion, m, clock, <<"hwdb">>, None)),
              <<Snippet("hwdb", amfs[GenericPath(m)])>> \o
                 (IF workers[m].fwmerge.some
                  THEN <<Snippet("hwdb-fwrev", amfs[workers[m].fwmerge.path])>>
                  ELSE <<>>))
        /\ WStep(m, "insert", Call("hwdb", TRUE))
        /\ UNCHANGED <<nameVars, exit_status, ingestVars, mergeVars, resctlVars, prog, apc, aresult, adb, aengine, ascan,
                   aversion, amfs, apdfs, amerges, aenv, clock, aselected, aemitted>>

\* create_hwdb_in: the file is created and a format run fails
WHwdbErr ==
    \E m \in DOMAIN workers :
        /\ WAt(m, "hwdb")
        /\ MatchesHwdbReq(workers[m].semver)
        /\ \E written \in {<<>>} \cup
                 (IF workers[m].fwmerge.some /\ GenericPath(m) \in DOMAIN amfs
                  THEN {<<Snippet("hwdb", amfs[GenericPath(m)])>>} ELSE {}) :
              afiles' = WriteFile(afiles,
                 HwdbInput(build_descriptive_filename(aversion, m, clock, <<"hwdb">>, None)),
                 written)
        /\ WPanicAfter(m, "Failed to create a hwdb file", Call("hwdb", FALSE))
        /\ UNCHANGED <<nameVars, exit_status, ingestVars, mergeVars, resctlVars, prog, apc, aresult, adb, aengine, ascan,
                   aversion, amfs, apdfs, amerges, aenv, clock, aselected, aemitted>>

\* BenchMerge as the closure holds it
BenchMergeOf(m) ==
    [version_str |-> aversion, model_name |-> m, path |-> GenericPath(m),
     data_points |-> workers[m].data_points, fwmerge |-> workers[m].fwmerge,
     semver |-> workers[m].semver]

\* mutant: an insert that does not see the inserts of the other closures
MapInsert_Fresh(map, key, merge) == [k \in {key} |-> <<merge>>]

\* merges.entry(key).or_insert(vec![]).push(merge), under the shard's lock
MapInsert(map, key, merge) ==
    [k \in DOMAIN map \cup {key} |->
        IF k = key THEN (IF key \in DOMAIN map THEN Append(map[key], merge) ELSE <<merge>>)
        ELSE map[k]]

\* the closure inserts its merge into the map and ends
WInsert ==
    \E m \in DOMAIN workers :
        /\ WAt(m, "insert")
        /\ amerges' = MapInsert(amerges, BenchMergeOf(m).model_name, BenchMergeOf(m))
        /\ workers' = [workers EXCEPT ![m].pc = "done"]
        /\ UNCHANGED <<nameVars, exit_status, ingestVars, mergeVars, resctlVars, prog, apc, aresult, adb, aengine, ascan,
                   aversion, amfs, afiles, apdfs, aenv, clock, aselected, aemitted>>

\* mutant: for_each returns while closures are still running
AllJoined_None == TRUE

\* for_each returns when every closure has ended
AllJoined == \A m \in DOMAIN workers : workers[m].pc \in {"done", "panic"}

\* for_each returns, the loop goes on with the next version directory
AggJoin ==
    /\ prog = "aggregate" /\ apc = "workers"
    /\ AllJoined
    /\ \A m \in DOMAIN workers : workers[m].pc # "panic"
    /\ apc' = "scan"
    /\ UNCHANGED <<nameVars, exit_status, ingestVars, mergeVars, resctlVars, prog, aresult, adb, aengine, ascan,
                   aversion, workers, amfs, afiles, apdfs, amerges, aenv, clock, aselected,
                   aemitted>>

\* for_each resumes the panic of a closure
AggJoinPanic ==
    /\ prog = "aggregate" /\ apc = "workers"
    /\ AllJoined
    /\ \E m \in DOMAIN workers :
          /\ workers[m].pc = "panic"
          /\ AggExit("panic", workers[m].cause)
    /\ UNCHANGED <<nameVars, exit_status, ingestVars, mergeVars, resctlVars, prog, adb, aengine, ascan,
                   aversion, workers, amfs, afiles, apdfs, amerges, aenv, clock, aselected,
                   aemitted>>

\* every version directory is done
AggScanDone ==
    /\ prog = "aggregate" /\ apc = "scan"
    /\ ascan = <<>>
    /\ apc' = "context"
    /\ UNCHANGED <<nameVars, exit_status, ingestVars, mergeVars, resctlVars, prog, aresult, adb, aengine, ascan,
                   aversion, workers, amfs, afiles, apdfs, amerges, aenv, clock, aselected,
                   aemitted>>

\* GITHUB_CONTEXT is not set or is not JSON
AggContextErr ==
    /\ prog = "aggregate" /\ apc = "context"
    /\ AggExit("err", "GITHUB_CONTEXT")
    /\ UNCHANGED <<nameVars, exit_status, ingestVars, mergeVars, resctlVars, prog, adb, aengine, ascan,
                   aversion, workers, amfs, afiles, apdfs, amerges, aenv, clock, aselected,
                   aemitted>>

\* 90-iocost-tune.hwdb is created and its header written
AggContext ==
    /\ prog = "aggregate" /\ apc = "context"
    /\ apc' = "select"
    /\ UNCHANGED <<nameVars, exit_status, ingestVars, mergeVars, resctlVars, prog, aresult, adb, aengine, ascan,
                   aversion, workers, amfs, afiles, apdfs, amerges, aenv, clock, aselected,
                   aemitted>>

\* models of the `models` vector not gone through yet; the vector is in the
\* map's iteration order, which is any order
Unselected == DOMAIN amerges \ {aselected[i].model : i \in 1..Len(aselected)}

AtSelect(model) == AggProg /\ apc = "select" /\ model \in Unselected

\* std::env::var: a value that is Unicode, or VarError::NotUnicode
EnvValue(v) == [unicode |-> TRUE, v |-> v]

NotUnicode == [unicode |-> FALSE, v |-> <<>>]

\* the file name chosen by the data-point policy, at the instant of choosing
BestByDataPoints(model) ==
    build_descriptive_filename(max_by_key(amerges[model]).version_str,
                               max_by_key(amerges[model]).model_name,
                               clock, <<"hwdb">>, None)

Selection(model, policy, chosen, best) ==
    [model |-> model, policy |-> policy, chosen |-> chosen, best |-> best]

Emission(model, best) ==
    [model |-> model, best |-> best, contents |-> afiles[HwdbInput(best)]]

\* no override: the alternative with the most data points; its snippet is
\* read and written out
AggSelectBest ==
    \E model \in DOMAIN amerges :
        /\ AtSelect(model)
        /\ override_var(model) \notin DOMAIN aenv
        /\ HwdbInput(BestByDataPoints(model)) \in DOMAIN afiles
        /\ aselected' = Append(aselected,
              Selection(model, "data_points", max_by_key(amerges[model]),
                        BestByDataPoints(model)))
        /\ aemitted' = Append(aemitted, Emission(model, BestByDataPoints(model)))
        /\ UNCHANGED <<nameVars, exit_status, ingestVars, mergeVars, resctlVars, prog, apc, aresult, adb, aengine,
                       ascan, aversion, workers, amfs, afiles, apdfs, amerges, aenv, clock>>

\* no override: there is no file of the chosen name in hwdb-inputs
AggSelectBestPanic ==
    \E model \in DOMAIN amerges :
        /\ AtSelect(model)
        /\ override_var(model) \notin DOMAIN aenv
        /\ HwdbInput(BestByDataPoints(model)) \notin DOMAIN afiles
        /\ aselected' = Append(aselected,
              Selection(model, "data_points", max_by_key(amerges[model]),
                        BestByDataPoints(model)))
        /\ AggExit("panic", "Failed to read input hwdb file")
        /\ UNCHANGED <<nameVars, exit_status, ingestVars, mergeVars, resctlVars, prog, adb, aengine, ascan,
                   aversion, workers, amfs, afiles, apdfs, amerges, aenv, clock, aemitted>>

\* the override variable cannot be interpreted
AggOverrideNotUnicode ==
    \E model \in DOMAIN amerges :
        /\ AtSelect(model)
        /\ override_var(model) \in DOMAIN aenv
        /\ ~aenv[override_var(model)].unicode
        /\ AggExit("panic", "Failed to interpret variable")
        /\ UNCHANGED <<nameVars, exit_status, ingestVars, mergeVars, resctlVars, prog, adb, aengine, ascan,
                   aversion, workers, amfs, afiles, apdfs, amerges, aenv, clock, aselected, aemitted>>

\* override: Path::exists(&PathBuf::from(&best)) is false
AggOverrideMissing ==
    \E model \in DOMAIN amerges :
        /\ AtSelect(model)
        /\ override_var(model) \in DOMAIN aenv
        /\ aenv[override_var(model)].unicode
        /\ ~PathExists(afiles, aenv[override_var(model)].v)
        /\ AggExit("panic", "Failed to find override file")
        /\ UNCHANGED <<nameVars, exit_status, ingestVars, mergeVars, resctlVars, prog, adb, aengine, ascan,
                   aversion, workers, amfs, afiles, apdfs, amerges, aenv, clock, aselected, aemitted>>

\* override: the named path exists, hwdb-inputs/<best> cannot be read
AggOverrideUnreadable ==
    \E model \in DOMAIN amerges :
        /\ AtSelect(model)
        /\ override_var(model) \in DOMAIN aenv
        /\ aenv[override_var(model)].unicode
        /\ PathExists(afiles, aenv[override_var(model)].v)
        /\ HwdbInput(aenv[override_var(model)].v) \notin DOMAIN afiles
        /\ aselected' = Append(aselected,
              Selection(model, "override", None, aenv[override_var(model)].v))
        /\ AggExit("panic", "Failed to read input hwdb file")
        /\ UNCHANGED <<nameVars, exit_status, ingestVars, mergeVars, resctlVars, prog, adb, aengine, ascan,
                   aversion, workers, amfs, afiles, apdfs, amerges, aenv, clock, aemitted>>

\* override: the named path exists, hwdb-inputs/<best> is read and written out
AggSelectOverride ==
    \E model \in DOMAIN amerges :
        /\ AtSelect(model)
        /\ override_var(model) \in DOMAIN aenv
        /\ aenv[override_var(model)].unicode
        /\ PathExists(afiles, aenv[override_var(model)].v)
        /\ HwdbInput(aenv[override_var(model)].v) \in DOMAIN afiles
        /\ aselected' = Append(aselected,
              Selection(model, "override", None, aenv[override_var(model)].v))
        /\ aemitted' = Append(aemitted, Emission(model, aenv[override_var(model)].v))
        /\ UNCHANGED <<nameVars, exit_status, ingestVars, mergeVars, resctlVars, prog, apc, aresult, adb, aengine,
                       ascan, aversion, workers, amfs, afiles, apdfs, amerges, aenv, clock>>

\* every model is written out: Ok(())
AggDone ==
    /\ AggProg /\ apc = "select"
    /\ Unselected = {}
    /\ AggExit("ok", NoCause)
    /\ UNCHANGED <<nameVars, exit_status, ingestVars, mergeVars, resctlVars, prog, adb, aengine, ascan,
                   aversion, workers, amfs, afiles, apdfs, amerges, aenv, clock, aselected, aemitted>>

\* bound on the alternatives of a model
MaxAlts == 3

\* version buckets the alternatives of a model come from
AltVersions == <<V21, V22, V23, <<"2", ".", "4">>, <<"2", ".", "5">>>>

\* data points of an alternative
AltDPs == {MaxDP - 2, MaxDP - 1, MaxDP}

\* instant at which the snippets in hwdb-inputs were created
CreatedAt == 0

\* a BenchMerge of the map
Alternative(version_str, model_name, dp) ==
    [version_str |-> version_str, model_name |-> model_name,
     path |-> merged_file(version_str, model_name, None),
     data_points |-> dp, fwmerge |-> NoFw, semver |-> SemverParse(<<"2", ".", "2", ".", "4">>)]

\* the vectors the map can hold for a model: one alternative per version bucket
AlternativesOf(model_name) ==
    UNION { { [i \in 1..n |-> Alternative(AltVersions[i], model_name, dps[i])] :
                dps \in [1..n -> AltDPs] } : n \in 1..MaxAlts }

\* the maps handed to the selection pass
MergesMaps ==
    { [m \in {ModelA} |-> alts] : alts \in AlternativesOf(ModelA) } \cup
    { [m \in {ModelA, ModelB} |->
          IF m = ModelA THEN alts ELSE <<Alternative(V22, ModelB, MaxDP - 1)>>] :
        alts \in AlternativesOf(ModelA) }

\* the snippet create_hwdb_in wrote for an alternative
SnippetsOf(map) ==
    LET alts == UNION { {map[m][i] : i \in 1..Len(map[m])} : m \in DOMAIN map }
        name(a) == HwdbInput(build_descriptive_filename(a.version_str, a.model_name,
                                                        CreatedAt, <<"hwdb">>, None))
        of(path) == CHOOSE a \in alts : name(a) = path
    IN [path \in {name(a) : a \in alts} |->
           <<Snippet("hwdb", Merged(of(path).version_str, of(path).model_name, None,
                                    of(path).data_points))>>]

\* a snippet kept under a name of its own
OverrideName == <<"x", ".hwdb">>

OverrideSnippet == <<Snippet("hwdb", Merged(V22, <<"x">>, None, 0))>>

\* where a file of that name may lie: in hwdb-inputs/, in the working directory
OverrideFiles ==
    { [path \in paths |-> OverrideSnippet] :
        paths \in SUBSET {HwdbInput(OverrideName), Resolve(OverrideName)} }

\* the environment: no override, or one for model A
Environments ==
    {EmptyMap} \cup
    { [var \in {override_var(ModelA)} |-> value] :
        value \in {EnvValue(OverrideName), EnvValue(HwdbInput(OverrideName)), NotUnicode} }

Overlay(f, g) == [x \in DOMAIN f \cup DOMAIN g |-> IF x \in DOMAIN f THEN f[x] ELSE g[x]]

SelectInit ==
    /\ apc = "select"
    /\ aresult = AggRunning
    /\ adb = EmptyMap
    /\ aengine = <<>>
    /\ ascan = <<>>
    /\ aversion = <<>>
    /\ workers = NoWorkers
    /\ amfs = EmptyMap
    /\ amerges \in MergesMaps
    /\ \E extra \in OverrideFiles : afiles = Overlay(SnippetsOf(amerges), extra)
    /\ apdfs = {}
    /\ aenv \in Environments
    /\ clock = CreatedAt
    /\ aselected = <<>>
    /\ aemitted = <<>>

SelectNext ==
    \/ Tick
    \/ AggSelectBest \/ AggSelectBestPanic
    \/ AggOverrideNotUnicode \/ AggOverrideMissing \/ AggOverrideUnreadable
    \/ AggSelectOverride
    \/ AggDone

WorkerNext ==
    \/ WDoMerge \/ WDoMergeErr \/ WCount \/ WCountErr
    \/ WFwMerge \/ WFwMergeErr \/ WFwCount \/ WFwCountErr \/ WFwRemove \/ WFwRemoveErr
    \/ WVersion \/ WVersionPanic
    \/ WPdf \/ WPdfErr \/ WHwdbSkip \/ WHwdb \/ WHwdbErr
    \/ WInsert

AggNext ==
    \/ AggSkipLegacy \/ AggFanOut \/ WorkerNext \/ AggJoin \/ AggJoinPanic
    \/ AggScanDone \/ AggContextErr \/ AggContext
    \/ Tick \/ AggSelectBest \/ AggSelectBestPanic \/ AggDone

\* ------------------------------------------------------------------------
\* main of import-results: the configuration file, the --result mode and
\* the exit status of the process
\* ------------------------------------------------------------------------
\* the FILE.json.gz that can be given with --result: a name in the working
\* directory, a path through a subdirectory, an absolute path
LocalFiles == {<<"local", "-result", ".json.gz">>,
               <<"sub/", "local", ".json.gz">>,
               <<"/", "tmp/local", ".json.gz">>}

\* the file named on the command line
result_file == todo[1]

\* new_from_file: result = load_json(file).expect(..), then
\* result[0]["sysinfo"]...
MetaFromFile(b) ==
    IF load_json(b).err THEN [status |-> "panic", version |-> <<>>, model_name |-> <<>>]
    ELSE ExtractMeta(JIdx(load_json(b).json, 0))

\* new_from_file on the file given: load_json fails when there is no such file
LocalMeta ==
    IF result_file \in DOMAIN cwd THEN MetaFromFile(cwd[result_file])
    ELSE [status |-> "panic", version |-> <<>>, model_name |-> <<>>]

FileInit ==
    /\ ctx = [locked |-> TRUE, state |-> "closed", action |-> "closed",
              event_name |-> "issues", issue_body |-> NoBody, comment_body |-> NoBody]
    /\ pc = "start"
    /\ outcome = "running"
    /\ todo \in {<<f>> : f \in LocalFiles}
    /\ errors = <<>>
    /\ merged = EmptyMap
    /\ cwd \in {EmptyMap} \cup {WriteFile(EmptyMap, todo[1], b) : b \in FileBytes}
    /\ db = EmptyMap
    /\ sidecars = {}
    /\ index = {}
    /\ requests = <<>>
    /\ validated = <<>>
    /\ accepted = {}
    /\ comments = <<>>
    /\ described = EmptyMap
    /\ merges = <<>>
    /\ commits = <<>>

\* the configuration file cannot be read: eprintln, exit(1)
ConfigErr ==
    /\ prog \in {"import", "file"} /\ pc = "start"
    /\ Finish("err")
    /\ UNCHANGED <<nameVars, exit_status, mergeVars, resctlVars, aggVars, prog, ctx, todo, errors, merged, cwd, db, sidecars, index, requests,
                   validated, accepted, comments, described, merges, commits>>

\* the configuration file is not valid TOML: expect panics
ConfigPanic ==
    /\ prog \in {"import", "file"} /\ pc = "start"
    /\ Finish("panic")
    /\ UNCHANGED <<nameVars, exit_status, mergeVars, resctlVars, aggVars, prog, ctx, todo, errors, merged, cwd, db, sidecars, index, requests,
                   validated, accepted, comments, described, merges, commits>>

\* new_from_file: the file does not load, or bench_version has no word
FileMetadataPanic ==
    /\ prog = "file" /\ pc = "start"
    /\ LocalMeta.status = "panic"
    /\ Finish("panic")
    /\ UNCHANGED <<nameVars, exit_status, mergeVars, resctlVars, aggVars, prog, ctx, todo, errors, merged, cwd, db, sidecars, index, requests,
                   validated, accepted, comments, described, merges, commits>>

\* new_from_file: the version does not parse, main returns the error
FileMetadataErr ==
    /\ prog = "file" /\ pc = "start"
    /\ LocalMeta.status = "err"
    /\ Finish("err")
    /\ UNCHANGED <<nameVars, exit_status, mergeVars, resctlVars, aggVars, prog, ctx, todo, errors, merged, cwd, db, sidecars, index, requests,
                   validated, accepted, comments, described, merges, commits>>

\* validate fails: expect panics
FileValidatePanic ==
    /\ prog = "file" /\ pc = "start"
    /\ LocalMeta.status = "ok"
    /\ validated' = Append(validated, <<result_file, FALSE>>)
    /\ Finish("panic")
    /\ UNCHANGED <<nameVars, exit_status, mergeVars, resctlVars, aggVars, prog, ctx, todo, errors, merged, cwd, db, sidecars, index, requests,
                   accepted, comments, described, merges, commits>>

\* add_to_database(None, None): save_pdf_to fails
FilePdfErr ==
    /\ prog = "file" /\ pc = "start"
    /\ LocalMeta.status = "ok"
    /\ validated' = Append(validated, <<result_file, TRUE>>)
    /\ Finish("err")
    /\ UNCHANGED <<nameVars, exit_status, mergeVars, resctlVars, aggVars, prog, ctx, todo, errors, merged, cwd, db, sidecars, index, requests,
                   accepted, comments, described, merges, commits>>

\* PathBuf::from(&self.dir).join(&self.result_file): an absolute result
\* file replaces the directory
JoinsAway(file) == file[1] = "/"

\* the join goes through a subdirectory the bucket directory does not have
JoinsBelow(file) == file[1] = "sub/"

\* metadata_filepath: dir.join(basename) with the extension json.metadata
LocalMetadataPath(dir, file) ==
    IF JoinsAway(file) THEN <<<<>>, <<file[1], file[2], ".json.metadata">>>>
    ELSE MetadataPath(dir, file)

\* what fs::rename(result_file, db_file) leaves, the file being `file`
Renamed(fs, dir, file) ==
    [work |-> IF JoinsAway(file) THEN fs ELSE RemoveFile(fs, file),
     stored |-> IF JoinsAway(file) THEN {} ELSE {<<dir, file>>}]

\* add_to_database(None, None): the rename fails, or the file is moved and
\* the metadata file cannot be created or written
FileStoreErr ==
    /\ prog = "file" /\ pc = "start"
    /\ \E renamed \in IF JoinsBelow(result_file) THEN {FALSE} ELSE BOOLEAN :
       \E created \in {FALSE, renamed} :
          LET b == cwd[result_file]
              meta == LocalMeta
              dir == BucketDir(meta.version, meta.model_name)
              moved == Renamed(cwd, dir, result_file)
          IN /\ meta.status = "ok"
             /\ cwd' = IF renamed THEN moved.work ELSE cwd
             /\ db' = IF renamed /\ moved.stored # {}
                      THEN WriteFile(db, <<dir, result_file>>, b) ELSE db
             /\ accepted' = IF renamed /\ moved.stored # {}
                            THEN accepted \cup {<<dir, b>>} ELSE accepted
             /\ sidecars' = IF created
                            THEN sidecars \cup {LocalMetadataPath(dir, result_file)}
                            ELSE sidecars
    /\ validated' = Append(validated, <<result_file, TRUE>>)
    /\ Finish("err")
    /\ UNCHANGED <<nameVars, exit_status, mergeVars, resctlVars, aggVars, prog, ctx, todo, errors, merged, index, requests,
                   comments, described, merges, commits>>

\* add_to_database(None, None): the file is renamed and its metadata
\* written; no index is given
FileAccept ==
    /\ prog = "file" /\ pc = "start"
    /\ ~JoinsBelow(result_file)
    /\ LET b == cwd[result_file]
           meta == LocalMeta
           dir == BucketDir(meta.version, meta.model_name)
           moved == Renamed(cwd, dir, result_file)
       IN /\ meta.status = "ok"
          /\ cwd' = moved.work
          /\ db' = IF moved.stored # {} THEN WriteFile(db, <<dir, result_file>>, b) ELSE db
          /\ sidecars' = sidecars \cup {LocalMetadataPath(dir, result_file)}
          /\ accepted' = IF moved.stored # {} THEN accepted \cup {<<dir, b>>} ELSE accepted
    /\ validated' = Append(validated, <<result_file, TRUE>>)
    /\ Finish("ok")
    /\ UNCHANGED <<nameVars, exit_status, mergeVars, resctlVars, aggVars, prog, ctx, todo, errors, merged, index, requests,
                   comments, described, merges, commits>>

\* the end of main: exit(1) after either mode returned Ok; an Err returned
\* by main ends the process with status 1, a panic with status 101
MainExit ==
    /\ prog \in {"import", "file"} /\ pc = "exit" /\ exit_status = NotExited
    /\ exit_status' = CASE outcome = "ok" -> 1
                        [] outcome = "err" -> 1
                        [] outcome = "panic" -> 101
    /\ UNCHANGED <<nameVars, ingestVars, mergeVars, resctlVars, aggVars, prog>>

\* main without --result
MainNext == ConfigErr \/ ConfigPanic \/ MainExit

\* main with --result
FileNext ==
    \/ ConfigErr \/ ConfigPanic
    \/ FileMetadataPanic \/ FileMetadataErr \/ FileValidatePanic
    \/ FilePdfErr \/ FileStoreErr \/ FileAccept
    \/ MainExit

\* ------------------------------------------------------------------------
\* Device model names: from the result file to the override variable
\* ------------------------------------------------------------------------
MaxName == 3

\* characters a scr_dev_model text is made of: a letter, a digit, the two
\* whitespace characters of IsWhitespace, and three punctuation characters
NameChars == {"A", "7", " ", "\t", "-", ".", "_"}

RECURSIVE StringsUpTo(_, _)
StringsUpTo(chars, n) ==
    IF n = 0 THEN {<<>>}
    ELSE LET shorter == StringsUpTo(chars, n - 1)
         IN shorter \cup {Append(t, c) : t \in {u \in shorter : Len(u) = n - 1}, c \in chars}

ModelFields == StringsUpTo(NameChars, MaxName)

NameInit ==
    /\ npc = "field"
    /\ nfield \in ModelFields
    /\ nmodel = <<>>
    /\ nkey = <<>>

NameIdle ==
    /\ npc = "idle"
    /\ nfield = <<>>
    /\ nmodel = <<>>
    /\ nkey = <<>>

\* BenchResult::new_from_file / new_from_issue: model_name
NameModel ==
    /\ prog = "names" /\ npc = "field"
    /\ nmodel' = ReplaceSpace(nfield)
    /\ npc' = "named"
    /\ UNCHANGED <<ingestVars, mergeVars, resctlVars, aggVars, exit_status, prog, nfield, nkey>>

\* main of merge-results: override_var of a model of the map
NameOverrideVar ==
    /\ prog = "names" /\ npc = "named"
    /\ nkey' = override_var(nmodel)
    /\ npc' = "keyed"
    /\ UNCHANGED <<ingestVars, mergeVars, resctlVars, aggVars, exit_status, prog, nfield, nmodel>>

NameNext == NameModel \/ NameOverrideVar

\* ------------------------------------------------------------------------
\* Specifications
\* ------------------------------------------------------------------------
vars == <<prog, ingestVars, mergeVars, resctlVars, aggVars, nameVars, exit_status>>

\* the ingestion programs
Init == prog \in {"import", "ci"} /\ IngestInit /\ MergeIdle /\ ResctlIdle /\ AggIdle /\ NameIdle /\ MainIdle

Next == IngestNext \/ MainNext

Spec == Init /\ [][Next]_vars

\* BenchMerge::merge for one bucket
InitMerge == prog = "merge" /\ IngestIdle /\ MergeInit /\ ResctlIdle /\ AggIdle /\ NameIdle /\ MainIdle

SpecMerge == InitMerge /\ [][MergeNext]_vars

\* run_resctl over every subprocess result
InitResctl == prog = "resctl" /\ IngestIdle /\ MergeIdle /\ ResctlInit /\ AggIdle /\ NameIdle /\ MainIdle

SpecResctl == InitResctl /\ [][ResctlNext]_vars

\* main of merge-results, with no override variable set
InitAggregate == prog = "aggregate" /\ IngestIdle /\ MergeIdle /\ ResctlIdle /\ AggInit /\ NameIdle /\ MainIdle

SpecAggregate == InitAggregate /\ [][AggNext]_vars

\* the selection pass of merge-results over every map of alternatives
InitSelect == prog = "select" /\ IngestIdle /\ MergeIdle /\ ResctlIdle /\ SelectInit /\ NameIdle /\ MainIdle

SpecSelect == InitSelect /\ [][SelectNext]_vars

\* main of import-results with --result, over every file that can be given
InitFile == prog = "file" /\ FileInit /\ MergeIdle /\ ResctlIdle /\ AggIdle /\ NameIdle /\ MainIdle

SpecFile == InitFile /\ [][FileNext]_vars

\* every device model text, through the importer and merge-results
InitNames == prog = "names" /\ IngestIdle /\ MergeIdle /\ ResctlIdle /\ AggIdle /\ NameInit /\ MainIdle

SpecNames == InitNames /\ [][NameNext]_vars

\* ------------------------------------------------------------------------
\* Properties
\* ------------------------------------------------------------------------
\* what the written filter demands of a link, stated on the link itself
TrustedHosts ==
    {"https://github.com/", "https://iocost-submit-us-east-1.s3.us-east-1.amazonaws.com/"}

PassesFilter(u) == u[1] \in TrustedHosts /\ u[Len(u)] = ".json.gz"

\* the links of the body the import run reads
EventLinks == EventBody(ctx).links

\* number of links of a body that pass the filter
PassingCount(links) == Cardinality({i \in 1..Len(links) : PassesFilter(links[i])})

\* C1: in the import run every network request is for a link that has an
\* allow-listed prefix and ends in ".json.gz"; no link failing either test
\* is ever fetched.
C1_OnlyFilteredUrlsFetched ==
    prog = "import" =>
        \A i \in 1..Len(requests) :
            /\ PassesFilter(requests[i])
            /\ \E j \in 1..Len(EventLinks) : EventLinks[j] = requests[i]

\* a run whose body held a link failing the filter, after all downloads
C1_Witness ==
    /\ prog = "import" /\ pc = "reported"
    /\ Len(requests) >= 1
    /\ \E j \in 1..Len(EventLinks) : ~PassesFilter(EventLinks[j])

\* the body of the scenario: one link that passes, one on a foreign host
MixedBody ==
    /\ prog = "import"
    /\ Len(EventLinks) = 2
    /\ \E i, j \in 1..2 :
          /\ i # j
          /\ PassesFilter(EventLinks[i])
          /\ EventLinks[j][1] \notin TrustedHosts

GoodLink == CHOOSE u \in {EventLinks[1], EventLinks[2]} : PassesFilter(u)

ForeignLink == CHOOSE u \in {EventLinks[1], EventLinks[2]} : u[1] \notin TrustedHosts

NoEffects ==
    /\ requests = <<>> /\ validated = <<>>
    /\ DOMAIN cwd = {} /\ DOMAIN db = {} /\ sidecars = {} /\ index = {}
    /\ DOMAIN merged = {}
    /\ comments = <<>> /\ commits = <<>>

\* C3 as written: for a locked or not-open issue ingestion returns normally
\* and does nothing (runs that failed before looking at the issue aside).
C3_RejectedIssueIsNoOp ==
    ((ctx.locked \/ ctx.state # "open") /\ pc = "exit" /\ outcome # "err") =>
        (outcome = "ok" /\ NoEffects)

\* C3 amended: for a locked or not-open issue ingestion downloads nothing,
\* stores nothing, posts no comment and creates no commit; process_submission
\* returns Ok, while run_as_gh_workflow never returns Ok: it ends in the
\* panic of get_urls, unless it failed with an error before get_urls.
C3_RejectedIssueNoEffects ==
    ((ctx.locked \/ ctx.state # "open") /\ prog \in {"import", "ci"}) =>
        /\ NoEffects
        /\ pc \in {"start", "exit"}
        /\ (pc = "exit" /\ prog = "ci") => outcome = "ok"
        /\ (pc = "exit" /\ prog = "import") => outcome \in {"panic", "err"}

\* the import run has ended on a closed issue
C3_Witness ==
    /\ prog = "import" /\ ctx.state = "closed" /\ ~ctx.locked
    /\ EventLinks # <<>> /\ PassesFilter(EventLinks[1])
    /\ pc = "exit" /\ outcome = "panic"

\* a loop iteration whose validation run reported an error
ValidationFailedStep ==
    /\ prog = "import"
    /\ Len(validated') = Len(validated) + 1
    /\ ~validated'[Len(validated')][2]

\* C4: an iteration whose validation fails stores nothing (no file in a
\* bucket, no sidecar, no index entry, no counter change), records the
\* engine's error text with the link, and leaves the loop running on the
\* remaining links.
C4_FailedValidationStoresNothing ==
    [][ValidationFailedStep =>
          /\ db' = db /\ sidecars' = sidecars /\ index' = index
          /\ merged' = merged /\ accepted' = accepted
          /\ Len(errors') = Len(errors) + 1
          /\ SubSeq(errors', 1, Len(errors)) = errors
          /\ Contains(errors'[Len(errors')], Head(todo))
          /\ Contains(errors'[Len(errors')], <<"stderr: bad result">>)
          /\ todo' = Tail(todo) /\ pc' = "loop" /\ outcome' = "running"]_vars

\* a file was stored after an earlier link of the event failed validation
C4_Witness ==
    /\ prog = "import"
    /\ Len(validated) = 2 /\ ~validated[1][2] /\ validated[2][2]
    /\ Len(errors) = 1
    /\ Cardinality(DOMAIN db) = 1 /\ Cardinality(DOMAIN merged) = 1
    /\ pc = "loop"

\* an iteration that downloaded a file and did not reach the validation run
MetadataFailedStep ==
    /\ prog = "import" /\ pc = "loop" /\ todo # <<>>
    /\ requests' = Append(requests, Head(todo))
    /\ validated' = validated
    /\ cwd' # cwd

\* C5 as written: a metadata extraction failure fails that item only; the
\* failure is recorded and the loop goes on with the other links.
C5_MetadataFailureIsPerItem ==
    [][MetadataFailedStep =>
          /\ pc' = "loop" /\ outcome' = "running"
          /\ todo' = Tail(todo)
          /\ Len(errors') = Len(errors) + 1]_vars

\* C6: at most one comment per event; it is posted when every link that
\* passed the filter has been downloaded and validated, it contains every
\* recorded rejection, and none is posted without a rejection.
C6_OneAggregatedComment ==
    prog = "import" =>
        /\ Len(comments) <= 1
        /\ comments # <<>> =>
              /\ errors # <<>>
              /\ Len(requests) = PassingCount(EventLinks)
              /\ Len(validated) = PassingCount(EventLinks)
              /\ \A i \in 1..Len(errors) : Contains(comments[1], errors[i])
        /\ (pc \in {"reported", "describe"} /\ errors = <<>>) => comments = <<>>
        /\ (pc \in {"reported", "describe"} /\ errors # <<>>) => Len(comments) = 1

\* two rejections of one event in one comment
C6_Witness ==
    /\ prog = "import"
    /\ Len(errors) = 2 /\ errors[1] # errors[2]
    /\ Len(comments) = 1

\* the result files of a bucket directory
FilesIn(dir) == {path \in DOMAIN db : path[1] = dir}

BucketDirs == {a[1] : a \in accepted}

\* C7 as written: the number of result files of a bucket is the number of
\* distinct contents accepted into it, and different contents have
\* different names.
C7_OneFilePerContent ==
    (pc # "exit" \/ outcome = "ok") =>
    \A dir \in BucketDirs :
        /\ Cardinality(FilesIn(dir)) = Cardinality({a \in accepted : a[1] = dir})
        /\ \A a1, a2 \in accepted :
              (a1[1] = dir /\ a2[1] = dir /\ a1[2] # a2[2]) =>
                  \E p1, p2 \in FilesIn(dir) : p1 # p2 /\ db[p1] = a1[2] /\ db[p2] = a2[2]

\* C7 amended: a stored file is named result-<digest of its contents>, so
\* byte-identical downloads get the same name and the number of result
\* files of a bucket is the number of distinct content digests accepted
\* into it; files with different digests have different names.
C7_OneFilePerDigest ==
    /\ \A path \in DOMAIN db :
          /\ path[2] = <<"result-", Md5(db[path]), ".json.gz">>
          /\ <<path[1], db[path]>> \in accepted
    /\ \A a \in accepted :
          \E path \in FilesIn(a[1]) : path[2][2] = Md5(a[2])
    /\ \A dir \in BucketDirs :
          Cardinality(FilesIn(dir)) = Cardinality({Md5(a[2]) : a \in {x \in accepted : x[1] = dir}})

\* the same contents accepted twice into a bucket: one file
C7_Witness ==
    /\ \E k \in DOMAIN merged : merged[k].new_files = 2
    /\ Cardinality(accepted) = 1
    /\ Cardinality(DOMAIN db) = 1

\* the `merged` key of a bucket directory
KeyOfDir(dir) == dir[2] \o <<"-">> \o dir[3]

RECURSIVE TotalNewFiles(_)
\* the sum of the counters of the groups ks
TotalNewFiles(ks) ==
    IF ks = {} THEN 0
    ELSE LET k == CHOOSE x \in ks : TRUE
         IN merged[k].new_files + TotalNewFiles(ks \ {k})

\* number of bucket merges run for group k
MergeCount(k) == Cardinality({i \in 1..Len(merges) : merges[i].key = k})

\* a release older than 2.2.3
OlderThan223(v) ==
    /\ v.pre = <<>>
    /\ \/ v.major < 2
       \/ v.major = 2 /\ v.minor < 2
       \/ v.major = 2 /\ v.minor = 2 /\ v.patch < 3

\* C8 as written: once the links are processed and the run has succeeded,
\* the merge was run exactly once for each group that received a new file
\* and for no other group.
C8_OneMergePerGroup ==
    (prog = "import" /\ pc = "exit" /\ outcome = "ok") =>
        /\ \A k \in DOMAIN merged : MergeCount(k) = 1
        /\ \A i \in 1..Len(merges) : merges[i].key \in DOMAIN merged

\* C8 amended: the accepted files are grouped by (version bucket, model);
\* the merge is run at most once per group that received a new file and for
\* no other group, only after the loop; for a group whose summary was
\* produced it was run exactly once unless the engine of the bucket is a
\* release older than 2.2.3, in which case it was not run at all; and a
\* commit is made only when every group has been gone through.
C8_OneMergePerSupportedGroup ==
    prog = "import" =>
        /\ (pc # "exit" \/ outcome = "ok") =>
              /\ DOMAIN merged = {KeyOfDir(dir) : dir \in BucketDirs}
              /\ TotalNewFiles(DOMAIN merged) =
                    Cardinality({i \in 1..Len(validated) : validated[i][2]})
        /\ \A k \in DOMAIN merged : merged[k].new_files >= 1
        /\ \A i \in 1..Len(merges) :
              /\ merges[i].key \in DOMAIN merged
              /\ merges[i].inputs # {}
        /\ \A k \in DOMAIN merged : MergeCount(k) <= 1
        /\ merges # <<>> => todo = <<>>
        /\ DOMAIN described \subseteq DOMAIN merged
        /\ \A k \in DOMAIN merged :
              MergeCount(k) = 1 <=> (k \in DOMAIN described /\ ~OlderThan223(described[k].engine))
        /\ commits # <<>> => DOMAIN described = DOMAIN merged

\* a commit after two groups, one merged and one skipped for its old engine
C8_Witness ==
    /\ prog = "import" /\ commits # <<>>
    /\ Cardinality(DOMAIN merged) = 2
    /\ Len(merges) = 1
    /\ \E k \in DOMAIN described : OlderThan223(described[k].engine)

\* try_fwmerge has decided on its candidate
FwDecided == prog = "merge" /\ mpc \in {"finish", "done"} /\ fw.path # <<>>

Distance(a, b) == IF a >= b THEN a - b ELSE b - a

\* C9: the candidate is discarded and its file deleted exactly when it has
\* fewer than 4 data points or its count differs from the bucket-wide count
\* by less than 1; otherwise it is returned and its file is kept.
C9_FwDiscardRule ==
    FwDecided =>
        LET discard == fw.data_points < 4 \/ Distance(fw.data_points, common_dp) < 1
        IN /\ discard => (~fw.some /\ fw.path \notin DOMAIN mfs)
           /\ ~discard => (fw.some /\ fw.path \in DOMAIN mfs /\ mfs[fw.path] = fw.data_points)
           /\ mret.status = "ok" => mret.fwmerge.some = ~discard
           /\ (mret.status = "ok" /\ ~discard) => mret.fwmerge = fw

\* a candidate with fewer than 4 data points, far from the generic count
C9_Witness ==
    /\ FwDecided /\ mret.status = "ok"
    /\ fw.data_points < 4 /\ Distance(fw.data_points, common_dp) >= 2
    /\ ~mret.fwmerge.some

\* C10 as written: a candidate whose count is within 1 of the generic count
\* is discarded and not persisted.
C10_FwWithinOneDiscarded ==
    (FwDecided /\ Distance(fw.data_points, common_dp) <= 1) =>
        (~fw.some /\ fw.path \notin DOMAIN mfs)

\* C10 amended: a candidate whose count differs from the generic count by
\* less than 1, that is, equals it, is discarded and not persisted.
C10_FwEqualDiscarded ==
    (FwDecided /\ Distance(fw.data_points, common_dp) < 1) =>
        /\ ~fw.some /\ fw.path \notin DOMAIN mfs
        /\ mret.status = "ok" => ~mret.fwmerge.some

\* a candidate large enough, with the generic count: discarded
C10_Witness ==
    /\ FwDecided /\ mret.status = "ok"
    /\ fw.data_points = common_dp /\ fw.data_points >= 4
    /\ ~mret.fwmerge.some /\ fw.path \notin DOMAIN mfs

\* the bytes are the text they encode
IsText(bytes) == "xFF" \notin {bytes[i] : i \in 1..Len(bytes)}

Returned == prog = "resctl" /\ rpc = "done" /\ rproc.spawned

\* C11 as written: run_resctl fails exactly when the subprocess wrote a
\* non-empty standard error, whatever its exit code: non-empty stderr gives an
\* error carrying the stderr text, and empty stderr with valid UTF-8 stdout
\* gives the stdout as success.
C11_StderrDecides ==
    Returned =>
        /\ rproc.stderr # <<>> => rret = [status |-> "err", text |-> rproc.stderr]
        /\ (rproc.stderr = <<>> /\ IsText(rproc.stdout)) =>
              rret = [status |-> "ok", text |-> rproc.stdout]

\* C11 amended: for a subprocess that ran, run_resctl fails whenever stderr
\* is non-empty, whatever the exit code, and the error carries the stderr
\* text when stderr is valid UTF-8 (otherwise it is the decoding error);
\* with empty stderr it succeeds with the stdout exactly when stdout is
\* valid UTF-8, also for a non-zero exit status.
C11_StderrDecidesWhenText ==
    Returned =>
        /\ rproc.stderr # <<>> => rret.status = "err"
        /\ (rproc.stderr # <<>> /\ IsText(rproc.stderr)) => rret.text = rproc.stderr
        /\ (rproc.stderr # <<>> /\ ~IsText(rproc.stderr)) => rret.text # rproc.stderr
        /\ rproc.stderr = <<>> =>
              /\ rret.status = "ok" <=> IsText(rproc.stdout)
              /\ rret.status = "ok" => rret.text = rproc.stdout

\* a failed exit status with empty stderr returned its stdout as success
C11_Witness ==
    /\ Returned
    /\ rproc.status # 0 /\ rproc.stderr = <<>> /\ rproc.stdout # <<>>
    /\ rret = [status |-> "ok", text |-> rproc.stdout]

\* a version that precedes 2.2.3 in semver order (a pre-release of 2.2.3
\* precedes 2.2.3)
Precedes223(v) ==
    \/ v.major < 2
    \/ v.major = 2 /\ v.minor < 2
    \/ v.major = 2 /\ v.minor = 2 /\ v.patch < 3
    \/ v.major = 2 /\ v.minor = 2 /\ v.patch = 3 /\ v.pre # <<>>

\* C13 as written: for an engine whose reported version is below 2.2.3,
\* format_high_level gives the empty summary without failing and without
\* running the engine in merge or format mode.
C13_OldEngineEmptySummary ==
    prog = "import" =>
        \A k \in DOMAIN described :
            Precedes223(described[k].engine) =>
                /\ ~described[k].summary
                /\ ~described[k].failed
                /\ MergeCount(k) = 0

\* the closure made an engine run in a merge mode that failed
FailedMergeCall(w) ==
    \E i \in 1..Len(w.calls) : w.calls[i].mode \in {"merge", "fwmerge"} /\ ~w.calls[i].ok

CallsIn(w, mode) == Cardinality({i \in 1..Len(w.calls) : w.calls[i].mode = mode})

Instants == 0..MaxClock

\* a PDF or a snippet published for bucket (version, model_name)
PublishedFor(version, model_name) ==
    \/ \E p \in apdfs, t \in Instants :
          p.name = <<"iocost-tune-">> \o version \o <<"-">> \o model_name
                      \o <<"-", Dates[t + 1], ".", "pdf">>
    \/ \E t \in Instants :
          <<"/", "work", "hwdb-inputs/", "iocost-tune-">> \o version \o <<"-">> \o model_name
              \o <<"-", Dates[t + 1], ".", "hwdb">> \in DOMAIN afiles

\* the alternatives the map holds for bucket (version, model_name)
EntriesFor(version, model_name) ==
    IF model_name \in DOMAIN amerges
    THEN {i \in 1..Len(amerges[model_name]) : amerges[model_name][i].version_str = version}
    ELSE {}

\* C12: an engine failure in the bucket-wide merge or in the firmware merge
\* ends the merge call: the engine is not run again for the bucket, no
\* BenchMerge exists for it, no PDF and no hwdb snippet is published for it,
\* and the run ends in the panic without reaching the selection pass.
C12_MergeFailureIsFatal ==
    prog = "aggregate" =>
        \A m \in DOMAIN workers :
            FailedMergeCall(workers[m]) =>
                /\ workers[m].pc = "panic"
                /\ ~workers[m].calls[Len(workers[m].calls)].ok
                /\ \A i \in 1..(Len(workers[m].calls) - 1) : workers[m].calls[i].ok
                /\ CallsIn(workers[m], "merge") <= 1 /\ CallsIn(workers[m], "fwmerge") <= 1
                /\ ~workers[m].fwmerge.some
                /\ EntriesFor(aversion, m) = {}
                /\ ~PublishedFor(aversion, m)
                /\ apc \in {"workers", "exit"}
                /\ apc = "exit" => aresult.status = "panic"
                /\ aselected = <<>> /\ aemitted = <<>>

\* the firmware merge of one bucket failed after its bucket-wide merge, the
\* other bucket of the version was published, and the run ended in the panic
C12_Witness ==
    /\ prog = "aggregate" /\ apc = "exit"
    /\ aresult = [status |-> "panic", cause |-> "Failed to merge"]
    /\ \E m \in DOMAIN workers :
          /\ workers[m].calls = <<[mode |-> "merge", ok |-> TRUE],
                                  [mode |-> "fwmerge", ok |-> FALSE]>>
          /\ \E o \in DOMAIN workers \ {m} :
                workers[o].pc = "done" /\ PublishedFor(aversion, o)

\* the engine of the version being processed reports a release below 2.2.4
EngineBelow224 ==
    /\ Len(aengine) = 7
    /\ aengine[3] = "2" /\ aengine[5] = "2" /\ aengine[7] \in {"0", "1", "2", "3"}

\* C14 as written: with an engine below 2.2.4, hwdb generation gives no
\* output and no error, and the aggregation over the buckets merged with that
\* engine does not fail for it.
C14_OldEngineAggregates ==
    (prog = "aggregate" /\ EngineBelow224 /\ clock = 0) =>
        /\ \A m \in DOMAIN workers : workers[m].cause # "Failed to create a hwdb file"
        /\ aresult.cause # "Failed to read input hwdb file"

\* the data-point counts of the alternatives of a model
CountsOf(model) == {amerges[model][j].data_points : j \in 1..Len(amerges[model])}

\* C15: for a model with no override variable, the selection pass chooses by
\* data points, and what it chooses is one of the model's alternatives whose
\* count no other alternative of the model exceeds; the snippet it names is
\* that alternative's.
C15_GreatestDataPointsSelected ==
    prog = "select" =>
        \A i \in 1..Len(aselected) :
            override_var(aselected[i].model) \notin DOMAIN aenv =>
                /\ aselected[i].policy = "data_points"
                /\ \E j \in 1..Len(amerges[aselected[i].model]) :
                      amerges[aselected[i].model][j] = aselected[i].chosen
                /\ \A c \in CountsOf(aselected[i].model) : c <= aselected[i].chosen.data_points
                /\ \E t \in Instants :
                      aselected[i].best =
                         <<"iocost-tune-">> \o aselected[i].chosen.version_str \o <<"-">>
                            \o aselected[i].model \o <<"-", Dates[t + 1], ".", "hwdb">>

\* three alternatives with distinct counts, the greatest in the middle, and
\* the snippet of the middle one written out
C15_Witness ==
    /\ prog = "select" /\ aenv = EmptyMap
    /\ Len(amerges[<<"A">>]) = 3
    /\ amerges[<<"A">>][2].data_points > amerges[<<"A">>][1].data_points
    /\ amerges[<<"A">>][1].data_points > amerges[<<"A">>][3].data_points
    /\ \E i \in 1..Len(aemitted) :
          /\ aemitted[i].model = <<"A">>
          /\ aemitted[i].contents[1].of.version = amerges[<<"A">>][2].version_str
          /\ aemitted[i].contents[1].of.dp = amerges[<<"A">>][2].data_points

\* the snippet file an override value names: hwdb-inputs/<value>
NamedSnippet(value) ==
    IF value # <<>> /\ value[1] = "/" THEN value ELSE <<"/", "work", "hwdb-inputs/">> \o value

\* C16 as written: for a model with an override value, the contents of the
\* snippet file the value names are written out when that file exists, the
\* run fails when it does not exist, and the data-point policy is not used in
\* either case.
C16_OverrideSelectsNamedFile ==
    prog = "select" =>
        \A model \in DOMAIN amerges :
            (override_var(model) \in DOMAIN aenv /\ aenv[override_var(model)].unicode) =>
                LET file == NamedSnippet(aenv[override_var(model)].v)
                IN /\ \A i \in 1..Len(aselected) :
                         aselected[i].model = model => aselected[i].policy = "override"
                   /\ \A i \in 1..Len(aemitted) :
                         aemitted[i].model = model =>
                            file \in DOMAIN afiles /\ aemitted[i].contents = afiles[file]
                   /\ file \in DOMAIN afiles => aresult.cause # "Failed to find override file"
                   /\ (file \notin DOMAIN afiles /\ apc = "exit") => aresult.status = "panic"

\* the model names of the databases, in ascending string order
SortedModelNames == <<<<"A">>, <<"A", "-", "B">>, <<"B">>>>

NameRank(model) == CHOOSE r \in 1..Len(SortedModelNames) : SortedModelNames[r] = model

\* C17 as written: the snippets are written to the consolidated file in
\* ascending model-name order, whatever order the map yields its keys in.
C17_SortedModelOrder ==
    prog = "aggregate" =>
        \A i \in 1..Len(aemitted) : \A j \in (i + 1)..Len(aemitted) :
            NameRank(aemitted[i].model) < NameRank(aemitted[j].model)

\* C18: the selection pass, and the opening of the consolidated file before
\* it, start only when no version directory is left to go through and every
\* closure of par_iter has ended, each bucket outside 2.1 having its merge
\* published and inserted into the map.
C18_SelectionAfterAllWorkers ==
    (prog = "aggregate" /\ (apc \in {"context", "select"} \/ aselected # <<>>)) =>
        /\ ascan = <<>>
        /\ \A m \in DOMAIN workers : workers[m].pc = "done"
        /\ \A b \in DOMAIN adb :
              b.version # <<"2", ".", "1">> =>
                  /\ Cardinality(EntriesFor(b.version, b.model_name)) = 1
                  /\ PublishedFor(b.version, b.model_name)

\* the selection pass has started after two closures ran for one version
C18_Witness ==
    /\ prog = "aggregate" /\ apc = "select"
    /\ Cardinality(DOMAIN workers) = 2
    /\ Cardinality(DOMAIN amerges) = 2

\* the closure of bucket b has ended
WorkerEnded(b) ==
    /\ b.version # <<"2", ".", "1">>
    /\ \A i \in 1..Len(ascan) : ascan[i] # b.version
    /\ b.version = aversion => workers[b.model_name].pc = "done"

\* C19: whatever the interleaving of the closures, the map holds exactly one
\* alternative for each bucket whose closure has ended and none for any
\* other, each under the name of its model directory.
C19_NoInsertLost ==
    prog = "aggregate" =>
        /\ \A b \in DOMAIN adb :
              Cardinality(EntriesFor(b.version, b.model_name)) = IF WorkerEnded(b) THEN 1 ELSE 0
        /\ \A k \in DOMAIN amerges : \A i \in 1..Len(amerges[k]) :
              /\ amerges[k][i].model_name = k
              /\ [version |-> amerges[k][i].version_str, model_name |-> k] \in DOMAIN adb

\* both closures of a version have inserted and for_each has not returned yet
C19_Witness ==
    /\ prog = "aggregate" /\ apc = "workers"
    /\ Cardinality(DOMAIN workers) = 2
    /\ \A m \in DOMAIN workers : workers[m].pc = "done" /\ Len(amerges[m]) = 1

\* the file at `path` holds the merge that bucket (aversion, m) wrote with
\* `detail`
HoldsOwnMerge(path, m, detail) ==
    /\ path \in DOMAIN amfs
    /\ amfs[path].version = aversion
    /\ amfs[path].model_name = m
    /\ amfs[path].detail = detail

\* C20 as written: no two merge targets share a path, so from the moment a
\* closure has written its bucket-wide merge until it has published it, the
\* file at that path is there and holds that merge, and so does the file of a
\* firmware merge it kept.
C20_MergeOutputsDisjoint ==
    prog = "aggregate" =>
        \A m \in DOMAIN workers :
            /\ workers[m].pc \in {"count", "fwmerge", "fwcount", "fwremove", "version",
                                  "pdf", "hwdb", "insert"} =>
                  HoldsOwnMerge(merged_file(aversion, m, None), m, None)
            /\ (workers[m].fwmerge.some /\ workers[m].pc \in {"version", "pdf", "hwdb", "insert"}) =>
                  HoldsOwnMerge(workers[m].fwmerge.path, m, Some(workers[m].fwmerge.fwrev))


IsAlphanumeric(c) == c \in {"A", "7"}

\* the characters of an override variable name after the OVERRIDE_BEST_ prefix
KeySuffix == SubSeq(nkey, 2, Len(nkey))

\* C21 (as stated): the override variable name is OVERRIDE_BEST_ followed
\* by alphanumeric characters and underscores only, whatever the model name.
C21_KeyAlphanumericOrUnderscore ==
    npc = "keyed" =>
        /\ nkey # <<>> /\ nkey[1] = "OVERRIDE_BEST_"
        /\ \A i \in 1..Len(KeySuffix) : IsAlphanumeric(KeySuffix[i]) \/ KeySuffix[i] = "_"

\* C21 (amended): the override variable name is OVERRIDE_BEST_ followed by
\* the model name with every dash replaced by an underscore and every
\* other character, alphanumeric or not, kept as it is.
C21_KeyReplacesDashesOnly ==
    npc = "keyed" =>
        /\ nkey # <<>> /\ nkey[1] = "OVERRIDE_BEST_"
        /\ Len(KeySuffix) = Len(nmodel)
        /\ \A i \in 1..Len(nmodel) :
              KeySuffix[i] = (IF nmodel[i] = "-" THEN "_" ELSE nmodel[i])

C21_Witness ==
    /\ npc = "keyed"
    /\ \E i \in 1..Len(nmodel) : nmodel[i] = "-"
    /\ \E i \in 1..Len(nmodel) : nmodel[i] = "."

RECURSIVE CollapseWhitespace(_)
\* the text with every run of whitespace characters replaced by one underscore
CollapseWhitespace(s) ==
    IF s = <<>> THEN <<>>
    ELSE IF ~IsWhitespace(Head(s)) THEN <<Head(s)>> \o CollapseWhitespace(Tail(s))
    ELSE IF Len(s) > 1 /\ IsWhitespace(s[2]) THEN CollapseWhitespace(Tail(s))
    ELSE <<"_">> \o CollapseWhitespace(Tail(s))

\* C22: the model name is the scr_dev_model text with every run of
\* whitespace collapsed to a single underscore; it holds no whitespace
\* character, also when the text has consecutive spaces or tabs.
C22_WhitespaceRunsCollapsed ==
    npc \in {"named", "keyed"} =>
        /\ \A i \in 1..Len(nmodel) : ~IsWhitespace(nmodel[i])
        /\ nmodel = CollapseWhitespace(nfield)


\* the engine passes the gate of create_hwdb_in: 2.2.4 or a pre-release of it
EngineWritesHwdb ==
    /\ Len(aengine) >= 7
    /\ aengine[3] = "2" /\ aengine[5] = "2" /\ aengine[7] = "4"

\* C23: for every model without an override, the snippet name computed by
\* the selection pass is a name create_hwdb_in wrote earlier in the run,
\* so the read of the selected snippet finds the file although time has
\* advanced in between.
C23_SelectedSnippetWasWritten ==
    (prog = "aggregate" /\ EngineWritesHwdb) =>
        /\ \A i \in 1..Len(aselected) :
              aselected[i].policy = "data_points" =>
                  HwdbInput(aselected[i].best) \in DOMAIN afiles
        /\ aresult.cause # "Failed to read input hwdb file"


\* C24: a stored result file yields the same (version bucket, model name)
\* and the same bucket directory through new_from_file and through
\* new_from_issue; a file accepted by one origin is not rejected at
\* metadata extraction by the other.
C24_OriginsAgree ==
    \A a \in accepted :
        /\ MetaFromFile(a[2]).status = "ok"
        /\ MetaFromIssue(a[2]).status = "ok"
        /\ BucketDir(MetaFromFile(a[2]).version, MetaFromFile(a[2]).model_name) = a[1]
        /\ BucketDir(MetaFromIssue(a[2]).version, MetaFromIssue(a[2]).model_name) = a[1]

\* C25: the exit status of import-results reflects the outcome: zero when
\* every step of the run succeeded (a local file imported, or the workflow
\* ending with a commit or with no new files), non-zero only when a step
\* failed.
C25_ExitStatusReflectsOutcome ==
    exit_status # NotExited => (exit_status = 0 <=> outcome = "ok")

====
